---- MODULE Spec2Model ----
(***************************************************************************)
(* Cleaning Tracker: the JSON record stores (entries, expenses, clients,   *)
(* config), the Flask HTTP handlers of webapp.py, the Streamlit form       *)
(* handlers of app.py and the shared business logic of helpers.py.         *)
(*                                                                         *)
(* Number representation.  Python floats are modelled by exact integers:   *)
(*   - an unrounded duration is a whole number of minutes (hours * 60);    *)
(*   - a value rounded to 2 decimals is a whole number of hundredths       *)
(*     (stored hours in 1/100 h, money in pence);                          *)
(*   - an unrounded money input is a whole number of thousandths.          *)
(* round(x, 2) is RoundDiv; the places where the binary representation of  *)
(* a double changes a result (format_hours) are tabulated from CPython.    *)
(***************************************************************************)
EXTENDS Integers, Sequences, FiniteSets, TLC

VARIABLES
    entries_file,    \* data/entries.json
    expenses_file,   \* data/expenses.json
    clients_file,    \* data/clients.json
    config_file,     \* data/config.json
    now,             \* the wall clock read by datetime.now()
    served,          \* number of requests / form submissions handled so far
    response,        \* outcome of the last handler that ran
    call,            \* a call of a pure function: its name and arguments
    ret,             \* the value the call returned
    disk,            \* data/entries.json as the text save_json writes
    pc,              \* position of each concurrent create_entry request
    req,             \* the JSON body of each concurrent request
    loaded,          \* the entries list each concurrent request holds
    last_saved,      \* the list written by the latest save_json to finish
    session_state    \* st.session_state of the browser session of the form UI

store_vars == <<entries_file, expenses_file, clients_file, config_file>>
calc_vars == <<call, ret>>
conc_vars == <<disk, pc, req, loaded, last_saved>>
ui_vars == <<session_state>>
vars == <<store_vars, now, served, response, calc_vars, conc_vars, ui_vars>>

(***************************************************************************)
(* Bounds of the model                                                     *)
(***************************************************************************)
MaxEntries == 2
MaxExpenses == 2
MaxClients == 2
MaxClock == 2
MaxRequests == 3
\* largest argument of format_hours tried, in hundredths of an hour
MaxFormatHours == 300
\* clock ticks per second: the resolution of isoformat() relative to the
\* one-second resolution of strftime("%Y%m%d%H%M%S")
TicksPerSecond == 2

(***************************************************************************)
(* Numbers                                                                 *)
(***************************************************************************)
\* Python's round(n / d, 0) for an exact quotient: nearest integer, a tie to
\* the even neighbour.
RoundDiv(n, d) ==
    LET q == n \div d
        r == n % d
    IN  IF 2 * r < d THEN q
        ELSE IF 2 * r > d THEN q + 1
        ELSE IF q % 2 = 0 THEN q ELSE q + 1

\* round(hours, 2) of a duration of m minutes, in hundredths of an hour
RoundHours(m) == RoundDiv(m * 100, 60)

\* round(hours * rate, 2) of a duration of m minutes at rate pence per hour,
\* in pence
RoundAmount(m, rate) == RoundDiv(m * rate, 60)

\* round(float(x), 2) of an amount given in thousandths, in pence
RoundMoney(x) == RoundDiv(x, 10)

(***************************************************************************)
(* helpers.py: data I/O                                                    *)
(***************************************************************************)
EmptyDict == [k \in {} |-> 0]

NoFile == [exists |-> FALSE, data |-> <<>>]

load_json(file, default) == IF file.exists THEN file.data ELSE default

save_json(data) == [exists |-> TRUE, data |-> data]

DEFAULT_CONFIG ==
    [ hourly_rate          |-> 1500,
      tax_year_start_month |-> 4,
      currency_symbol      |-> "GBP",
      business_name        |-> "Your Name",
      business_address     |-> "Your Address",
      business_email       |-> "your.email@example.com",
      business_phone       |-> "07xxx xxxxxx",
      payment_terms        |-> 14,
      bank_name            |-> "Your Bank",
      account_name         |-> "Your Name",
      sort_code            |-> "00-00-00",
      account_number       |-> "00000000",
      invoice_prefix       |-> "INV" ]

DEFAULT_CLIENTS ==
    << [id |-> "client_1", name |-> "Client 1", address |-> "Address", default_miles |-> 0] >>

\* a merge that keeps only the keys of a
DictMergeKnownKeys(a, b) ==
    [k \in DOMAIN a |-> IF k \in DOMAIN b THEN b[k] ELSE a[k]]

\* {**a, **b}: the keys of both, b's value where both have the key
DictMerge(a, b) ==
    [k \in (DOMAIN a) \cup (DOMAIN b) |-> IF k \in DOMAIN b THEN b[k] ELSE a[k]]

load_config(file) == DictMerge(DEFAULT_CONFIG, load_json(file, EmptyDict))

(***************************************************************************)
(* app.py: data I/O of the form UI                                         *)
(***************************************************************************)
app_load_config(file) ==
    IF file.exists THEN DictMerge(DEFAULT_CONFIG, file.data) ELSE DEFAULT_CONFIG

app_load_clients(file) ==
    IF file.exists THEN file.data
    ELSE << [id |-> "client_1", name |-> "Client 1", address |-> "Address"] >>

(***************************************************************************)
(* helpers.py: business logic                                              *)
(***************************************************************************)
\* _to_minutes: a time of day is <<hour, minute>>, the value both of a
\* datetime.time and of an "HH:MM" string
to_minutes(t) == t[1] * 60 + t[2]

\* calculate_hours with <= for <: equal times count as a full day
calculate_hours_le(start_time, end_time) ==
    LET start_minutes == to_minutes(start_time)
        end_minutes == to_minutes(end_time)
    IN  IF end_minutes <= start_minutes
        THEN (24 * 60 - start_minutes) + end_minutes
        ELSE end_minutes - start_minutes

\* The result is in minutes: the float returned is this number / 60.
calculate_hours(start_time, end_time) ==
    LET start_minutes == to_minutes(start_time)
        end_minutes == to_minutes(end_time)
    IN  IF end_minutes < start_minutes
        THEN (24 * 60 - start_minutes) + end_minutes
        ELSE end_minutes - start_minutes

get_client_names(clients) ==
    [n \in {clients[i].name : i \in DOMAIN clients} |->
        clients[CHOOSE i \in DOMAIN clients :
                    /\ clients[i].name = n
                    /\ \A j \in DOMAIN clients : clients[j].name = n => j <= i].id]

\* get_tax_year with > for >=: the start month itself falls in the year before
get_tax_year_gt(work_date, tax_year_start_month) ==
    IF work_date.month > tax_year_start_month THEN work_date.year ELSE work_date.year - 1

get_tax_year(work_date, tax_year_start_month) ==
    IF work_date.month >= tax_year_start_month THEN work_date.year ELSE work_date.year - 1

\* datetime(2000, m, 1).strftime("%B"); datetime() raises ValueError for a
\* month outside 1..12
MonthName(m) ==
    <<"January", "February", "March", "April", "May", "June", "July", "August",
      "September", "October", "November", "December">>[m]

ValidMonth(m) == m \in 1..12

get_tax_year_label(tax_year, tax_year_start_month) ==
    LET start_month_name == MonthName(tax_year_start_month)
        end_month == IF tax_year_start_month - 1 # 0 THEN tax_year_start_month - 1 ELSE 12
        end_month_name == MonthName(end_month)
    IN  ToString(tax_year) \o "/" \o ToString(tax_year + 1) \o " (" \o start_month_name
        \o " " \o ToString(tax_year) \o " - " \o end_month_name \o " "
        \o ToString(tax_year + 1) \o ")"

\* app.py has its own copies of the two functions
app_get_tax_year(work_date, tax_year_start_month) ==
    IF work_date.month >= tax_year_start_month THEN work_date.year ELSE work_date.year - 1

app_get_tax_year_label(tax_year, tax_year_start_month) ==
    LET month_name == MonthName(tax_year_start_month)
    IN  ToString(tax_year) \o "/" \o ToString(tax_year + 1) \o " (" \o month_name
        \o " " \o ToString(tax_year) \o " - " \o month_name \o " "
        \o ToString(tax_year + 1) \o ")"

\* The two-decimal values h (0.00 .. 24.00, in hundredths) for which CPython
\* evaluates (h - int(h)) * 60 in binary floating point to just below the
\* whole number of minutes that the decimal value has, e.g.
\* (1.15 - 1) * 60 = 8.999999999999995.
FloatShort ==
    {115, 120, 140, 145, 165, 190, 205, 215, 230, 240, 255, 265, 280, 290, 305,
     315, 330, 340, 355, 365, 380, 390, 405, 410, 430, 435, 455, 460, 480, 485,
     505, 510, 530, 535, 555, 560, 580, 585, 605, 610, 630, 635, 655, 660, 680,
     685, 705, 710, 730, 735, 755, 760, 780, 785, 810, 820, 835, 845, 860, 870,
     885, 895, 910, 920, 935, 945, 960, 970, 985, 995, 1010, 1020, 1035, 1045,
     1060, 1070, 1085, 1095, 1110, 1120, 1135, 1145, 1160, 1170, 1185, 1195,
     1210, 1220, 1235, 1245, 1260, 1270, 1285, 1295, 1310, 1320, 1335, 1345,
     1360, 1370, 1385, 1395, 1410, 1420, 1435, 1445, 1460, 1470, 1485, 1495,
     1510, 1520, 1535, 1545, 1560, 1570, 1585, 1595, 1615, 1620, 1640, 1645,
     1665, 1670, 1690, 1695, 1715, 1720, 1740, 1745, 1765, 1770, 1790, 1795,
     1815, 1820, 1840, 1845, 1865, 1870, 1890, 1895, 1915, 1920, 1940, 1945,
     1965, 1970, 1990, 1995, 2015, 2020, 2040, 2045, 2065, 2070, 2090, 2095,
     2115, 2120, 2140, 2145, 2165, 2170, 2190, 2195, 2215, 2220, 2240, 2245,
     2265, 2270, 2290, 2295, 2315, 2320, 2340, 2345, 2365, 2370, 2390, 2395}

\* the two integers of format_hours for hours given in hundredths:
\* h = int(hours), m = int((hours - h) * 60)
HoursMinutes(hours) ==
    LET h == hours \div 100
        frac == hours - h * 100
        m == IF hours \in FloatShort THEN (frac * 60) \div 100 - 1 ELSE (frac * 60) \div 100
    IN  <<h, m>>

\* f"{h}h {m}m"
format_hours(hours) ==
    LET hm == HoursMinutes(hours)
    IN  ToString(hm[1]) \o "h " \o ToString(hm[2]) \o "m"

(***************************************************************************)
(* Inputs offered to the handlers                                          *)
(***************************************************************************)
Date(y, m, d) == [year |-> y, month |-> m, day |-> d]

Dates == {Date(2024, 3, 31), Date(2024, 4, 1)}

\* <<start, end>>: 09:00-09:20 is a 20 minute session, 23:00-01:00 crosses
\* midnight
TimePairs == {<< <<9, 0>>, <<9, 20>> >>, << <<23, 0>>, <<1, 0>> >>}

\* client ids a request can name: the default client and timestamp ids
ClientIdInputs == {"client_1", "0"}

Rates == {1500, 2000}

\* start months the Settings selectbox offers (a subset of range(1, 13))
UiMonths == {4, 12}

\* amounts in thousandths: -5.0, 0 and 1.234
AmountInputs == {-5000, 0, 1234}

ClientNames == {"Ann", "Bob"}

EntryRequests ==
    {[client_id |-> c, date |-> d, start_time |-> p[1], end_time |-> p[2]] :
        c \in ClientIdInputs, d \in Dates, p \in TimePairs}
    \cup {[client_id |-> "client_1", date |-> Date(2024, 4, 1), start_time |-> <<9, 0>>]}

ExpenseRequests ==
    [client_id : {"client_1"}, date : {Date(2024, 4, 1)}, amount : AmountInputs]
    \cup {[client_id |-> "client_1", date |-> Date(2024, 3, 31), amount |-> 20000,
           description |-> "Bleach"]}
    \cup {[client_id |-> "client_1", date |-> Date(2024, 4, 1)]}

ClientRequests ==
    {[name |-> n] : n \in ClientNames \cup {" "}}
    \cup {[name |-> "Ann", address |-> "1 High St"], EmptyDict}

\* JSON bodies of PUT /api/config; "theme" is not a key of DEFAULT_CONFIG
ConfigRequests ==
    {[hourly_rate |-> r] : r \in Rates}
    \cup {[tax_year_start_month |-> m] : m \in {0, 13}}
    \cup {[hourly_rate |-> 2000, theme |-> "dark"]}

(***************************************************************************)
(* Python helpers                                                          *)
(***************************************************************************)
\* data.get(key, default)
DictGet(data, key, default) == IF key \in DOMAIN data THEN data[key] ELSE default

\* s.strip() for the names offered
Strip(s) == IF s = " " THEN "" ELSE s

\* [x for x in items if x["id"] != id]
WithoutId(items, id) == SelectSeq(items, LAMBDA x : x.id # id)

\* datetime.now().isoformat(): one value per clock tick
IsoFormat(t) == t

\* datetime.now().strftime("%Y%m%d%H%M%S"): one value per second
StrfSeconds(t) == ToString(t \div TicksPerSecond)

(***************************************************************************)
(* State                                                                   *)
(***************************************************************************)
\* the two concurrent requests of the interleaving model
Procs == {1, 2}

\* no data files yet, nothing served
InitStores ==
    /\ entries_file = NoFile
    /\ expenses_file = NoFile
    /\ clients_file = NoFile
    /\ config_file = NoFile
    /\ now = 0
    /\ served = 0
    /\ response = 0

NoCall ==
    /\ call = [fn |-> "none"]
    /\ ret = [done |-> FALSE]

NoRequests ==
    /\ disk = [exists |-> FALSE, text |-> <<>>]
    /\ pc = [p \in Procs |-> "idle"]
    /\ req = [p \in Procs |-> EmptyDict]
    /\ loaded = [p \in Procs |-> <<>>]
    /\ last_saved = <<>>
    /\ session_state = EmptyDict

Init == InitStores /\ NoCall /\ NoRequests

\* every handler run is one request; response is its HTTP status (for a
\* form handler 200 for st.success, 400 for st.error); the model serves at
\* most MaxRequests
Serve(status) ==
    /\ served < MaxRequests
    /\ served' = served + 1
    /\ response' = status
    /\ UNCHANGED <<calc_vars, conc_vars, ui_vars>>

\* time passes between (or during) requests
Tick ==
    /\ now < MaxClock
    /\ now' = now + 1
    /\ UNCHANGED <<store_vars, served, response, calc_vars, conc_vars, ui_vars>>

(***************************************************************************)
(* webapp.py: entries API                                                  *)
(***************************************************************************)
\* create_entry with the amount taken from the rounded hours
NewEntryFromRoundedHours(data, config, t) ==
    LET hours == calculate_hours(data.start_time, data.end_time)
        rate == config.hourly_rate
    IN  [ id          |-> IsoFormat(t),
          client_id   |-> data.client_id,
          date        |-> data.date,
          start_time  |-> data.start_time,
          end_time    |-> data.end_time,
          hours       |-> RoundHours(hours),
          hourly_rate |-> rate,
          amount      |-> RoundDiv(RoundHours(hours) * rate, 100) ]

\* the entry dict built by create_entry
NewEntry(data, config, t) ==
    LET hours == calculate_hours(data.start_time, data.end_time)
        rate == config.hourly_rate
    IN  [ id          |-> IsoFormat(t),
          client_id   |-> data.client_id,
          date        |-> data.date,
          start_time  |-> data.start_time,
          end_time    |-> data.end_time,
          hours       |-> RoundHours(hours),
          hourly_rate |-> rate,
          amount      |-> RoundAmount(hours, rate) ]

create_entry(data) ==
    IF \E field \in {"client_id", "date", "start_time", "end_time"} : field \notin DOMAIN data
    THEN /\ Serve(400)
         /\ UNCHANGED <<entries_file, expenses_file, clients_file, config_file, now>>
    ELSE LET config == load_config(config_file)
             entries == load_json(entries_file, <<>>)
         IN  /\ Len(entries) < MaxEntries
             /\ entries_file' = save_json(Append(entries, NewEntry(data, config, now)))
             /\ Serve(201)
             /\ UNCHANGED <<expenses_file, clients_file, config_file, now>>

(***************************************************************************)
(* webapp.py: expenses API                                                 *)
(***************************************************************************)
create_expense(data) ==
    IF \E field \in {"client_id", "date", "amount"} : field \notin DOMAIN data
    THEN /\ Serve(400)
         /\ UNCHANGED <<entries_file, expenses_file, clients_file, config_file, now>>
    ELSE LET expenses == load_json(expenses_file, <<>>)
             expense == [ id          |-> IsoFormat(now),
                          client_id   |-> data.client_id,
                          date        |-> data.date,
                          amount      |-> RoundMoney(data.amount),
                          description |-> DictGet(data, "description", "Cleaning supplies") ]
         IN  /\ Len(expenses) < MaxExpenses
             /\ expenses_file' = save_json(Append(expenses, expense))
             /\ Serve(201)
             /\ UNCHANGED <<entries_file, clients_file, config_file, now>>

(***************************************************************************)
(* webapp.py: config API                                                   *)
(***************************************************************************)
\* the loop of update_config: only keys of DEFAULT_CONFIG are taken
ApplyConfigUpdate(config, data) ==
    [k \in DOMAIN config |->
        IF k \in DOMAIN data /\ k \in DOMAIN DEFAULT_CONFIG THEN data[k] ELSE config[k]]

update_config(data) ==
    LET config == load_config(config_file)
    IN  /\ config_file' = save_json(ApplyConfigUpdate(config, data))
        /\ Serve(200)
        /\ UNCHANGED <<entries_file, expenses_file, clients_file, now>>

(***************************************************************************)
(* webapp.py: clients API                                                  *)
(***************************************************************************)
create_client(data) ==
    IF "name" \notin DOMAIN data \/ Strip(data.name) = ""
    THEN /\ Serve(400)
         /\ UNCHANGED <<entries_file, expenses_file, clients_file, config_file, now>>
    ELSE LET clients == load_json(clients_file, DEFAULT_CLIENTS)
             client == [ id      |-> StrfSeconds(now),
                         name    |-> data.name,
                         address |-> DictGet(data, "address", "") ]
         IN  /\ Len(clients) < MaxClients
             /\ clients_file' = save_json(Append(clients, client))
             /\ Serve(201)
             /\ UNCHANGED <<entries_file, expenses_file, config_file, now>>

\* delete_client that deletes the sessions of the client with it
delete_client_cascade(client_id) ==
    LET clients == load_json(clients_file, DEFAULT_CLIENTS)
    IN  /\ clients_file' = save_json(WithoutId(clients, client_id))
        /\ entries_file' =
                save_json(SelectSeq(load_json(entries_file, <<>>),
                                    LAMBDA e : e.client_id # client_id))
        /\ Serve(200)
        /\ UNCHANGED <<expenses_file, config_file, now>>

delete_client(client_id) ==
    LET clients == load_json(clients_file, DEFAULT_CLIENTS)
    IN  /\ clients_file' = save_json(WithoutId(clients, client_id))
        /\ Serve(200)
        /\ UNCHANGED <<entries_file, expenses_file, config_file, now>>

(***************************************************************************)
(* app.py: the Streamlit script.  Every rerun loads the four files at the  *)
(* top (lines 509-512) and then runs the handler of the pressed button.    *)
(***************************************************************************)
\* the ids the client selector of Log Entry / Log Expense can yield
SelectableClientIds(clients) ==
    LET client_names == get_client_names(clients)
    IN  IF Cardinality(DOMAIN client_names) > 1
        THEN {client_names[n] : n \in DOMAIN client_names}
        ELSE IF DOMAIN client_names # {}
             THEN {client_names[CHOOSE n \in DOMAIN client_names : TRUE]}
             ELSE {"default"}

\* Log Entry page, Save Entry
ui_save_entry(selected_client_id, work_date, start_time, end_time) ==
    LET config == app_load_config(config_file)
        entries == load_json(entries_file, <<>>)
        clients == app_load_clients(clients_file)
        hours == calculate_hours(start_time, end_time)
        entry == [ id          |-> IsoFormat(now),
                   client_id   |-> selected_client_id,
                   date        |-> work_date,
                   start_time  |-> start_time,
                   end_time    |-> end_time,
                   hours       |-> RoundHours(hours),
                   hourly_rate |-> config.hourly_rate,
                   amount      |-> RoundAmount(hours, config.hourly_rate) ]
    IN  /\ selected_client_id \in SelectableClientIds(clients)
        /\ Len(entries) < MaxEntries
        /\ entries_file' = save_json(Append(entries, entry))
        /\ Serve(200)
        /\ UNCHANGED <<expenses_file, clients_file, config_file, now>>

\* Log Expense page, Save Expense; the number input has min_value 0.0
ui_save_expense(selected_client_id, expense_date, expense_amount) ==
    LET expenses == load_json(expenses_file, <<>>)
        clients == app_load_clients(clients_file)
        expense == [ id          |-> IsoFormat(now),
                     client_id   |-> selected_client_id,
                     date        |-> expense_date,
                     amount      |-> RoundMoney(expense_amount),
                     description |-> "Cleaning supplies" ]
    IN  /\ selected_client_id \in SelectableClientIds(clients)
        /\ expense_amount >= 0
        /\ IF expense_amount > 0
           THEN /\ Len(expenses) < MaxExpenses
                /\ expenses_file' = save_json(Append(expenses, expense))
                /\ Serve(200)
           ELSE /\ Serve(400)
                /\ UNCHANGED expenses_file
        /\ UNCHANGED <<entries_file, clients_file, config_file, now>>

\* The Settings page builds the Tax Year Starts selectbox with
\* index = tax_year_start_month - 1 over range(1, 13); an index outside the
\* options raises and the script stops before any Settings button exists.
SettingsRenders(config) == config.tax_year_start_month - 1 \in 0..11

\* Settings page, Delete Client
ui_delete_client(del_selected) ==
    LET config == app_load_config(config_file)
        clients == app_load_clients(clients_file)
        del_client_names == get_client_names(clients)
    IN  /\ SettingsRenders(config)
        /\ Len(clients) > 1
        /\ del_selected \in DOMAIN del_client_names
        /\ clients_file' = save_json(WithoutId(clients, del_client_names[del_selected]))
        /\ Serve(200)
        /\ UNCHANGED <<entries_file, expenses_file, config_file, now>>

\* Settings page, Add Client
ui_add_client(new_client_name, new_client_address) ==
    LET config == app_load_config(config_file)
        clients == app_load_clients(clients_file)
        new_client == [ id      |-> StrfSeconds(now),
                        name    |-> new_client_name,
                        address |-> new_client_address ]
    IN  /\ SettingsRenders(config)
        /\ IF new_client_name # ""
           THEN /\ Len(clients) < MaxClients
                /\ clients_file' = save_json(Append(clients, new_client))
                /\ Serve(200)
           ELSE /\ Serve(400)
                /\ UNCHANGED clients_file
        /\ UNCHANGED <<entries_file, expenses_file, config_file, now>>

\* Settings page, Save Settings: the widgets not offered a new value here
\* keep the value they were built with, the current one
ui_save_settings(new_rate, new_tax_month) ==
    LET config == app_load_config(config_file)
    IN  /\ SettingsRenders(config)
        /\ new_rate >= 0
        /\ new_tax_month \in 1..12
        /\ config_file' = save_json([config EXCEPT !["hourly_rate"] = new_rate,
                                                   !["tax_year_start_month"] = new_tax_month])
        /\ Serve(200)
        /\ UNCHANGED <<entries_file, expenses_file, clients_file, now>>

(***************************************************************************)
(* webapp.py: reports API (computed, read-only)                            *)
(***************************************************************************)
RECURSIVE SumOf(_, _)
\* sum(e[field] for e in items)
SumOf(items, field) ==
    IF items = <<>> THEN 0 ELSE items[1][field] + SumOf(Tail(items), field)

\* the order of ISO date strings "YYYY-MM-DD"
DateKey(d) == d.year * 10000 + d.month * 100 + d.day

RECURSIVE InsertByDate(_, _)
InsertByDate(sorted, x) ==
    IF sorted = <<>> THEN <<x>>
    ELSE IF DateKey(x.date) < DateKey(sorted[1].date) THEN <<x>> \o sorted
    ELSE <<sorted[1]>> \o InsertByDate(Tail(sorted), x)

\* the items in the order they are stored in
StoredOrder(items) == items

RECURSIVE SortedByDate(_)
\* sorted(items, key=lambda x: x["date"]): ascending and stable
SortedByDate(items) ==
    IF items = <<>> THEN <<>>
    ELSE InsertByDate(SortedByDate(SubSeq(items, 1, Len(items) - 1)), items[Len(items)])

\* a falsy client_id (None or "") is ""
filter_by_client(items, client_id) ==
    IF client_id = "" THEN items ELSE SelectSeq(items, LAMBDA e : e.client_id = client_id)

InMonth(items, year, month) ==
    SelectSeq(items, LAMBDA e : e.date.year = year /\ e.date.month = month)

RECURSIVE SortedDesc(_)
\* sorted(set, reverse=True) of integer keys
SortedDesc(S) ==
    IF S = {} THEN <<>>
    ELSE LET top == CHOOSE x \in S : \A y \in S : y <= x
         IN  <<top>> \o SortedDesc(S \ {top})

RECURSIVE SortedAsc(_)
SortedAsc(S) ==
    IF S = {} THEN <<>>
    ELSE LET low == CHOOSE x \in S : \A y \in S : x <= y
         IN  <<low>> \o SortedAsc(S \ {low})

\* (year, month) as the integer year * 100 + month, the order of the tuples
\* and of the keys f"{d.year}-{d.month:02d}"
MonthKey(d) == d.year * 100 + d.month

RECURSIVE Digits(_)
\* the decimal digits of n >= 0, as str(n) has them
Digits(n) == IF n < 10 THEN <<n>> ELSE Digits(n \div 10) \o <<n % 10>>

\* the dict key f"{d.year}-{d.month:02d}" of taxyear_report for month key k,
\* as its characters: a digit is its value and "-", which sorts before the
\* digits, is -1
KeyText(k) == Digits(k \div 100) \o <<-1, (k % 100) \div 10, (k % 100) % 10>>

RECURSIVE StrLess(_, _)
\* a < b for two Python strings
StrLess(a, b) ==
    IF b = <<>> THEN FALSE
    ELSE IF a = <<>> THEN TRUE
    ELSE IF a[1] # b[1] THEN a[1] < b[1]
    ELSE StrLess(Tail(a), Tail(b))

RECURSIVE SortedKeys(_)
\* sorted(monthly): the month keys in the order of their key strings
SortedKeys(S) ==
    IF S = {} THEN <<>>
    ELSE LET low == CHOOSE x \in S : \A y \in S \ {x} : StrLess(KeyText(x), KeyText(y))
         IN  <<low>> \o SortedKeys(S \ {low})

\* sorted(monthly_data.items()) of the Tax Year page: the order of the
\* (year, month) tuples
SortedMonths(S) == SortedAsc(S)

DatesOf(items) == {items[i].date : i \in DOMAIN items}

\* monthly_report with the labour recomputed from the current config rate
monthly_report_current_rate(client_id, year, month) ==
    LET config == load_config(config_file)
        entries == filter_by_client(load_json(entries_file, <<>>), client_id)
        expenses == filter_by_client(load_json(expenses_file, <<>>), client_id)
        month_entries == IF year # 0 /\ month # 0 THEN InMonth(entries, year, month) ELSE <<>>
        month_expenses == IF year # 0 /\ month # 0 THEN InMonth(expenses, year, month) ELSE <<>>
        repriced == [i \in DOMAIN month_entries |->
                        [amount |-> RoundDiv(month_entries[i].hours * config.hourly_rate, 100)]]
        total_labour == SumOf(repriced, "amount")
        total_expenses == SumOf(month_expenses, "amount")
    IN  [ sessions         |-> Len(month_entries),
          total_hours      |-> SumOf(month_entries, "hours"),
          total_labour     |-> total_labour,
          total_expenses   |-> total_expenses,
          total_amount     |-> total_labour + total_expenses,
          entries          |-> SortedByDate(month_entries),
          expenses         |-> SortedByDate(month_expenses) ]

\* GET /api/reports/monthly; year = 0 or month = 0 stands for an absent or
\* zero argument
monthly_report(client_id, year, month) ==
    LET config == load_config(config_file)
        entries == filter_by_client(load_json(entries_file, <<>>), client_id)
        expenses == filter_by_client(load_json(expenses_file, <<>>), client_id)
        available_months == SortedDesc({MonthKey(d) : d \in DatesOf(entries) \cup DatesOf(expenses)})
        month_entries == IF year # 0 /\ month # 0 THEN InMonth(entries, year, month) ELSE <<>>
        month_expenses == IF year # 0 /\ month # 0 THEN InMonth(expenses, year, month) ELSE <<>>
        total_hours == SumOf(month_entries, "hours")
        total_labour == SumOf(month_entries, "amount")
        total_expenses == SumOf(month_expenses, "amount")
    IN  [ available_months |->
              [i \in DOMAIN available_months |->
                  [ year  |-> available_months[i] \div 100,
                    month |-> available_months[i] % 100,
                    label |-> MonthName(available_months[i] % 100) \o " "
                              \o ToString(available_months[i] \div 100) ]],
          sessions         |-> Len(month_entries),
          total_hours      |-> total_hours,
          total_hours_fmt  |-> format_hours(total_hours),
          total_labour     |-> total_labour,
          total_expenses   |-> total_expenses,
          total_amount     |-> total_labour + total_expenses,
          entries          |-> SortedByDate(month_entries),
          expenses         |-> SortedByDate(month_expenses),
          currency         |-> config.currency_symbol ]

\* a filter by calendar year, whatever the start month
InCalendarYear(items, ty, tsm) ==
    SelectSeq(items, LAMBDA e : e.date.year = ty)

InTaxYear(items, ty, tsm) ==
    SelectSeq(items, LAMBDA e : get_tax_year(e.date, tsm) = ty)

\* a breakdown row whose total leaves the expenses out
BreakdownRowLabourOnly(k, ty_entries, ty_expenses) ==
    LET es == SelectSeq(ty_entries, LAMBDA e : MonthKey(e.date) = k)
        xs == SelectSeq(ty_expenses, LAMBDA e : MonthKey(e.date) = k)
    IN  [ label     |-> SubSeq(MonthName(k % 100), 1, 3) \o " " \o ToString(k \div 100),
          sessions  |-> Len(es),
          hours     |-> SumOf(es, "hours"),
          hours_fmt |-> format_hours(SumOf(es, "hours")),
          labour    |-> SumOf(es, "amount"),
          expenses  |-> SumOf(xs, "amount"),
          total     |-> SumOf(es, "amount") ]

\* one row of the monthly breakdown of taxyear_report, for month key k
BreakdownRow(k, ty_entries, ty_expenses) ==
    LET es == SelectSeq(ty_entries, LAMBDA e : MonthKey(e.date) = k)
        xs == SelectSeq(ty_expenses, LAMBDA e : MonthKey(e.date) = k)
    IN  [ label     |-> SubSeq(MonthName(k % 100), 1, 3) \o " " \o ToString(k \div 100),
          sessions  |-> Len(es),
          hours     |-> SumOf(es, "hours"),
          hours_fmt |-> format_hours(SumOf(es, "hours")),
          labour    |-> SumOf(es, "amount"),
          expenses  |-> SumOf(xs, "amount"),
          total     |-> SumOf(es, "amount") + SumOf(xs, "amount") ]

\* GET /api/reports/taxyear; args is request.args, "tax_year" in it or not.
\* get_tax_year_label raises for a start month outside 1..12 as soon as
\* there is a tax year to label: the request then ends in a 500.
taxyear_report(client_id, args) ==
    LET config == load_config(config_file)
        tsm == config.tax_year_start_month
        entries == filter_by_client(load_json(entries_file, <<>>), client_id)
        expenses == filter_by_client(load_json(expenses_file, <<>>), client_id)
        all_dates == DatesOf(entries) \cup DatesOf(expenses)
        tax_years == SortedDesc({get_tax_year(d, tsm) : d \in all_dates})
        ty_entries == IF "tax_year" \in DOMAIN args
                      THEN InTaxYear(entries, args.tax_year, tsm) ELSE <<>>
        ty_expenses == IF "tax_year" \in DOMAIN args
                       THEN InTaxYear(expenses, args.tax_year, tsm) ELSE <<>>
        total_hours == SumOf(ty_entries, "hours")
        total_labour == SumOf(ty_entries, "amount")
        total_expenses_val == SumOf(ty_expenses, "amount")
        monthly == SortedKeys({MonthKey(d) : d \in DatesOf(ty_entries) \cup DatesOf(ty_expenses)})
    IN  IF tax_years # <<>> /\ ~ValidMonth(tsm)
        THEN [status |-> 500]
        ELSE [ status              |-> 200,
               available_tax_years |->
                   [i \in DOMAIN tax_years |->
                       [year |-> tax_years[i], label |-> get_tax_year_label(tax_years[i], tsm)]],
               sessions            |-> Len(ty_entries),
               total_hours         |-> total_hours,
               total_hours_fmt     |-> format_hours(total_hours),
               total_labour        |-> total_labour,
               total_expenses      |-> total_expenses_val,
               total_amount        |-> total_labour + total_expenses_val,
               breakdown           |->
                   [i \in DOMAIN monthly |-> BreakdownRow(monthly[i], ty_entries, ty_expenses)],
               currency            |-> config.currency_symbol ]

(***************************************************************************)
(* app.py: Tax Year page (computed, read-only)                             *)
(***************************************************************************)
\* one row of breakdown_data for month key k, with the numbers the row's
\* strings are formatted from
PageRow(k, ty_entries, ty_expenses) ==
    LET es == SelectSeq(ty_entries, LAMBDA e : MonthKey(e.date) = k)
        xs == SelectSeq(ty_expenses, LAMBDA e : MonthKey(e.date) = k)
    IN  [ Month    |-> SubSeq(MonthName(k % 100), 1, 3) \o " " \o ToString(k \div 100),
          Sessions |-> Len(es),
          hours    |-> SumOf(es, "hours"),
          Hours    |-> format_hours(SumOf(es, "hours")),
          labour   |-> SumOf(es, "amount"),
          expenses |-> SumOf(xs, "amount"),
          Total    |-> SumOf(es, "amount") + SumOf(xs, "amount") ]

\* the Tax Year page for the client filter chosen ("" for All Clients) and
\* the tax year chosen in the selectbox; shown says which branch rendered
tax_year_page(selected_filter_id, selected_tax_year) ==
    LET config == app_load_config(config_file)
        tsm == config.tax_year_start_month
        entries == load_json(entries_file, <<>>)
        expenses == load_json(expenses_file, <<>>)
        filtered_entries == filter_by_client(entries, selected_filter_id)
        filtered_expenses == filter_by_client(expenses, selected_filter_id)
        all_dates == DatesOf(filtered_entries) \cup DatesOf(filtered_expenses)
        tax_years == SortedDesc({app_get_tax_year(d, tsm) : d \in all_dates})
        ty_entries == InTaxYear(filtered_entries, selected_tax_year, tsm)
        ty_expenses == InTaxYear(filtered_expenses, selected_tax_year, tsm)
        total_labour == SumOf(ty_entries, "amount")
        total_expenses == SumOf(ty_expenses, "amount")
        monthly_data == SortedMonths({MonthKey(d) : d \in DatesOf(ty_entries) \cup DatesOf(ty_expenses)})
    IN  IF entries = <<>> /\ expenses = <<>> THEN [shown |-> "info"]
        ELSE IF tax_years = <<>> THEN [shown |-> "filter"]
        ELSE IF ~ValidMonth(tsm) THEN [shown |-> "exception"]
        ELSE [ shown          |-> "report",
               tax_years      |-> tax_years,
               sessions       |-> Len(ty_entries),
               total_hours    |-> SumOf(ty_entries, "hours"),
               total_labour   |-> total_labour,
               total_expenses |-> total_expenses,
               total_income   |-> total_labour + total_expenses,
               breakdown_data |->
                   [i \in DOMAIN monthly_data |-> PageRow(monthly_data[i], ty_entries, ty_expenses)] ]

(***************************************************************************)
(* Invoices                                                                *)
(***************************************************************************)
\* the real seconds of a day; the clock of the model counts ticks
SecondsPerDay == 86400

TicksPerDay == TicksPerSecond * SecondsPerDay

\* the calendar day of the clock value t, as a day number: strftime's
\* "%d/%m/%Y" of that day, and day + n is that date plus timedelta(days=n)
DayOf(t) == t \div TicksPerDay

\* f"{n:02d}" for n >= 0
Pad2(n) == IF n < 10 THEN "0" \o ToString(n) ELSE ToString(n)

\* generate_invoice_number without the zero padding of the month
generate_invoice_number_unpadded(year, month, config) ==
    config.invoice_prefix \o "-" \o ToString(year) \o ToString(month)

generate_invoice_number(year, month, config) ==
    config.invoice_prefix \o "-" \o ToString(year) \o Pad2(month)

\* get_client_by_id that answers an absent id with the placeholder only
get_client_by_id_placeholder(clients, client_id) ==
    IF \E i \in DOMAIN clients : clients[i].id = client_id
    THEN clients[CHOOSE i \in DOMAIN clients :
                    /\ clients[i].id = client_id
                    /\ \A j \in DOMAIN clients : clients[j].id = client_id => i <= j]
    ELSE [id |-> "default", name |-> "Unknown", address |-> ""]

get_client_by_id(clients, client_id) ==
    IF \E i \in DOMAIN clients : clients[i].id = client_id
    THEN clients[CHOOSE i \in DOMAIN clients :
                    /\ clients[i].id = client_id
                    /\ \A j \in DOMAIN clients : clients[j].id = client_id => i <= j]
    ELSE IF clients # <<>> THEN clients[1]
    ELSE [id |-> "default", name |-> "Unknown", address |-> ""]

\* app.py's own get_client_by_id
app_get_client_by_id(clients, client_id) ==
    IF \E i \in DOMAIN clients : clients[i].id = client_id
    THEN clients[CHOOSE i \in DOMAIN clients :
                    /\ clients[i].id = client_id
                    /\ \A j \in DOMAIN clients : clients[j].id = client_id => i <= j]
    ELSE IF clients # <<>> THEN clients[1]
    ELSE [id |-> "default", name |-> "Unknown", address |-> ""]

\* the allowance at 45p for every mile
calculate_hmrc_mileage_allowance_flat(total_miles) == RoundDiv(total_miles * 45, 1)

\* the allowance in pence for a whole number of miles; round(x, 2) of the
\* product in pounds is RoundDiv of the product in pence
calculate_hmrc_mileage_allowance(total_miles) ==
    IF total_miles <= 10000
    THEN RoundDiv(total_miles * 45, 1)
    ELSE RoundDiv(10000 * 45 + (total_miles - 10000) * 25, 1)

\* generate_invoice_html that bills the labour only
generate_invoice_html_labour_only(month_entries, month_expenses, selected_year, selected_month, config, client, t1, t2) ==
    [ status         |-> 200,
      total_hours    |-> SumOf(month_entries, "hours"),
      total_labour   |-> SumOf(month_entries, "amount"),
      total_expenses |-> SumOf(month_expenses, "amount"),
      total_amount   |-> SumOf(month_entries, "amount"),
      invoice_date   |-> DayOf(t1),
      due_date       |-> DayOf(t2) + config.payment_terms ]

\* the arguments generate_invoice_html gives to the invoice.html template;
\* t1 and t2 are the clock at its two calls of datetime.now().  datetime()
\* raises ValueError for a month outside 1..12: the request ends in a 500.
generate_invoice_html(month_entries, month_expenses, selected_year, selected_month, config, client, t1, t2) ==
    LET total_hours == SumOf(month_entries, "hours")
        total_labour == SumOf(month_entries, "amount")
        total_expenses == SumOf(month_expenses, "amount")
        sorted_entries == SortedByDate(month_entries)
        sorted_expenses == SortedByDate(month_expenses)
    IN  IF ~ValidMonth(selected_month) THEN [status |-> 500]
        ELSE [ status         |-> 200,
               client         |-> client,
               invoice_number |-> generate_invoice_number(selected_year, selected_month, config),
               invoice_date   |-> DayOf(t1),
               due_date       |-> DayOf(t2) + config.payment_terms,
               month_name     |-> MonthName(selected_month) \o " " \o ToString(selected_year),
               currency       |-> config.currency_symbol,
               entries        |->
                   [i \in DOMAIN sorted_entries |->
                       [ date        |-> sorted_entries[i].date,
                         start_time  |-> sorted_entries[i].start_time,
                         end_time    |-> sorted_entries[i].end_time,
                         hours       |-> sorted_entries[i].hours,
                         hourly_rate |-> sorted_entries[i].hourly_rate,
                         amount      |-> sorted_entries[i].amount ]],
               expenses       |->
                   [i \in DOMAIN sorted_expenses |->
                       [ date        |-> sorted_expenses[i].date,
                         description |-> DictGet(sorted_expenses[i], "description", "Cleaning supplies"),
                         amount      |-> sorted_expenses[i].amount ]],
               total_hours    |-> total_hours,
               total_labour   |-> total_labour,
               total_expenses |-> total_expenses,
               total_amount   |-> total_labour + total_expenses ]

\* GET /invoice; args is request.args (an absent or zero year or month is 0,
\* an absent or empty client_id is "")
invoice(args, t1, t2) ==
    IF args.client_id = "" \/ args.year = 0 \/ args.month = 0 THEN [status |-> 400]
    ELSE LET config == load_config(config_file)
             clients == load_json(clients_file, DEFAULT_CLIENTS)
             client == get_client_by_id(clients, args.client_id)
             entries == filter_by_client(load_json(entries_file, <<>>), args.client_id)
             expenses == filter_by_client(load_json(expenses_file, <<>>), args.client_id)
             month_entries == InMonth(entries, args.year, args.month)
             month_expenses == InMonth(expenses, args.year, args.month)
         IN  generate_invoice_html(month_entries, month_expenses, args.year, args.month,
                                   config, client, t1, t2)

(***************************************************************************)
(* The program                                                             *)
(***************************************************************************)
Next ==
    \/ Tick
    \/ \E data \in EntryRequests : create_entry(data)
    \/ \E data \in ExpenseRequests : create_expense(data)
    \/ \E data \in ConfigRequests : update_config(data)
    \/ \E data \in ClientRequests : create_client(data)
    \/ \E id \in ClientIdInputs \cup {"1"} : delete_client(id)
    \/ \E c \in ClientIdInputs \cup {"1", "default"}, d \in Dates, p \in TimePairs :
          ui_save_entry(c, d, p[1], p[2])
    \/ \E c \in ClientIdInputs \cup {"1", "default"}, d \in {Date(2024, 4, 1)}, a \in AmountInputs :
          ui_save_expense(c, d, a)
    \/ \E n \in ClientNames \cup {"Client 1"} : ui_delete_client(n)
    \/ \E n \in ClientNames \cup {""} : ui_add_client(n, "")
    \/ \E r \in Rates, m \in UiMonths : ui_save_settings(r, m)

Spec == Init /\ [][Next]_vars

(***************************************************************************)
(* Properties of the stores                                                *)
(***************************************************************************)
StoredEntries == load_json(entries_file, <<>>)
StoredExpenses == load_json(expenses_file, <<>>)
StoredClients == load_json(clients_file, DEFAULT_CLIENTS)
EffectiveConfig == load_config(config_file)

\* minutes from start to end on a 24 hour dial
ElapsedMinutes(e) ==
    ((e.end_time[1] * 60 + e.end_time[2]) - (e.start_time[1] * 60 + e.start_time[2])) % 1440

\* x is an integer nearest to n / d
Nearest(x, n, d) ==
    /\ 2 * (x * d - n) <= d
    /\ 2 * (n - x * d) <= d

\* the sum of f over the indices in S
RECURSIVE SumOver(_, _)
SumOver(S, f) ==
    IF S = {} THEN 0
    ELSE LET i == CHOOSE j \in S : TRUE IN f[i] + SumOver(S \ {i}, f)

\* C1 as stated: every stored session's amount is the stored (two-decimal)
\* hours times the stored rate, rounded to two decimals.
C1_AmountFromStoredHours ==
    \A i \in DOMAIN StoredEntries :
        LET e == StoredEntries[i]
        IN  Nearest(e.amount, e.hours * e.hourly_rate, 100)

\* C1 amended: every stored session's amount is the unrounded elapsed hours
\* between its stored start_time and end_time times its stored rate, rounded
\* to two decimals, and its stored hours is the same elapsed hours rounded to
\* two decimals.
C1_AmountFromElapsedHours ==
    \A i \in DOMAIN StoredEntries :
        LET e == StoredEntries[i]
        IN  /\ Nearest(e.amount, ElapsedMinutes(e) * e.hourly_rate, 60)
            /\ Nearest(e.hours, ElapsedMinutes(e) * 100, 60)

\* a 20 minute session saved after the rate was raised to 20.00: 0.33 h
\* stored, 6.67 charged
C1_Witness ==
    \E i \in DOMAIN StoredEntries :
        LET e == StoredEntries[i]
        IN  e.hours = 33 /\ e.hourly_rate = 2000 /\ e.amount = 667

ReportClients == {"", "client_1", "0"}
ReportMonths == {<<2024, 3>>, <<2024, 4>>}

\* the stored amounts of the sessions of client c (all clients for "") in
\* month ym
StoredLabour(c, ym) ==
    SumOver({i \in DOMAIN StoredEntries :
                /\ c \in {"", StoredEntries[i].client_id}
                /\ StoredEntries[i].date.year = ym[1]
                /\ StoredEntries[i].date.month = ym[2]},
            [i \in DOMAIN StoredEntries |-> StoredEntries[i].amount])

\* the stored amounts of the sessions of client c in tax year ty
StoredLabourOfTaxYear(c, ty) ==
    SumOver({i \in DOMAIN StoredEntries :
                /\ c \in {"", StoredEntries[i].client_id}
                /\ get_tax_year(StoredEntries[i].date, EffectiveConfig.tax_year_start_month) = ty},
            [i \in DOMAIN StoredEntries |-> StoredEntries[i].amount])

\* what the reports give is the sum of the stored amounts
ReportsSumStoredAmounts ==
    /\ \A c \in ReportClients, ym \in ReportMonths :
          monthly_report(c, ym[1], ym[2]).total_labour = StoredLabour(c, ym)
    /\ \A c \in ReportClients, ty \in {2023, 2024} :
          taxyear_report(c, [tax_year |-> ty]).status = 200 =>
              taxyear_report(c, [tax_year |-> ty]).total_labour = StoredLabourOfTaxYear(c, ty)

\* C2: a step that changes config.hourly_rate leaves every stored session
\* (its hourly_rate and amount included) as it was and the monthly labour
\* reported as it was; in every state, so after any such change, the monthly
\* and tax-year reports give the sum of the stored amounts; and a step that
\* stores a session gives it the rate the config had at that moment.
C2_RateChangeKeepsHistory ==
    /\ [][ EffectiveConfig'.hourly_rate # EffectiveConfig.hourly_rate =>
              /\ StoredEntries' = StoredEntries
              /\ \A c \in ReportClients, ym \in ReportMonths :
                    monthly_report(c, ym[1], ym[2])'.total_labour
                        = monthly_report(c, ym[1], ym[2]).total_labour ]_vars
    /\ [][ Len(StoredEntries') > Len(StoredEntries) =>
              StoredEntries'[Len(StoredEntries')].hourly_rate
                  = EffectiveConfig.hourly_rate ]_vars
    /\ []ReportsSumStoredAmounts

\* a session stored at 15.00, the rate then changed to 20.00, and a later
\* session stored at 20.00
C2_Witness ==
    /\ Len(StoredEntries) = 2
    /\ StoredEntries[1].hourly_rate = 1500
    /\ StoredEntries[2].hourly_rate = 2000
    /\ EffectiveConfig.hourly_rate = 2000

\* C4: the stored client list always holds at least one client.
C4_ClientListNonEmpty == Len(StoredClients) >= 1

\* C5: all stored clients have pairwise distinct ids.
C5_ClientIdsDistinct ==
    \A i, j \in DOMAIN StoredClients :
        i # j => StoredClients[i].id # StoredClients[j].id

\* C6: every stored expense has a positive amount (a request with a
\* non-positive amount stores nothing).
C6_ExpenseAmountsPositive ==
    \A i \in DOMAIN StoredExpenses : StoredExpenses[i].amount > 0

\* C7: the effective configuration always has tax_year_start_month in 1..12.
C7_StartMonthInRange == EffectiveConfig.tax_year_start_month \in 1..12

(***************************************************************************)
(* The pure functions, applied to arguments drawn from bounded sets        *)
(***************************************************************************)
MinuteSamples == {0, 1, 20, 30, 59}

TimesOfDay == {<<h, m>> : h \in 0..23, m \in MinuteSamples}

\* contents of data/config.json: every subset of two documented keys and
\* one key that DEFAULT_CONFIG does not have
StoredConfigKeys == {"hourly_rate", "tax_year_start_month", "theme"}

StoredConfigs ==
    {[k \in S |-> CASE k = "hourly_rate" -> 2000
                    [] k = "tax_year_start_month" -> 1
                    [] OTHER -> "dark"] : S \in SUBSET StoredConfigKeys}

ConfigFiles == {NoFile} \cup {save_json(d) : d \in StoredConfigs}

TaxYears == {2023, 2024}

\* the first and the last day of every month of two calendar years
TaxDates ==
    {Date(y, m, d) : y \in TaxYears, m \in 1..12, d \in {1, 28}}
    \cup {Date(y, m, 30) : y \in TaxYears, m \in {4, 6, 9, 11}}
    \cup {Date(y, m, 31) : y \in TaxYears, m \in {1, 3, 5, 7, 8, 10, 12}}

InvoiceYears == {2023, 2024, 2025}

InvoicePrefixes == {"INV", "CT"}

MileSamples == {0, 1, 2, 9999, 10000, 10001, 12000, 20000}

ClientA == [id |-> "client_1", name |-> "Client 1", address |-> "Address", default_miles |-> 0]
ClientB == [id |-> "1", name |-> "Ann", address |-> "", default_miles |-> 12]
ClientC == [id |-> "1", name |-> "Bob", address |-> "", default_miles |-> 0]

ClientLists ==
    {<<>>, <<ClientA>>, <<ClientB>>, <<ClientA, ClientB>>, <<ClientB, ClientA>>,
     <<ClientB, ClientC>>, <<ClientC, ClientA, ClientB>>}

LookupIds == {"client_1", "1", "2", "default", ""}

CalcCalls ==
    {[fn |-> "calculate_hmrc_mileage_allowance", total_miles |-> m] : m \in MileSamples}
    \cup {[fn |-> f, clients |-> cs, client_id |-> c] :
            f \in {"get_client_by_id", "app_get_client_by_id"},
            cs \in ClientLists, c \in LookupIds}
    \cup
    {[fn |-> "calculate_hours", start_time |-> s, end_time |-> e] :
        s \in TimesOfDay, e \in TimesOfDay}
    \cup {[fn |-> "format_hours", hours |-> h] : h \in 0..MaxFormatHours}
    \cup {[fn |-> f, file |-> file] :
            f \in {"load_config", "app_load_config"}, file \in ConfigFiles}
    \cup {[fn |-> f, work_date |-> d, tax_year_start_month |-> m] :
            f \in {"get_tax_year", "app_get_tax_year"}, d \in TaxDates, m \in 1..12}
    \cup {[fn |-> f, tax_year |-> y, tax_year_start_month |-> m] :
            f \in {"get_tax_year_label", "app_get_tax_year_label"}, y \in TaxYears, m \in 1..12}
    \cup {[fn |-> "generate_invoice_number", year |-> y, month |-> m,
            config |-> [DEFAULT_CONFIG EXCEPT !.invoice_prefix = p]] :
            y \in InvoiceYears, m \in 1..12, p \in InvoicePrefixes}

InitCalc ==
    /\ InitStores
    /\ NoRequests
    /\ call \in CalcCalls
    /\ ret = [done |-> FALSE]

Return(value) ==
    /\ ~ret.done
    /\ ret' = [done |-> TRUE, value |-> value]
    /\ UNCHANGED <<store_vars, now, served, response, call, conc_vars, ui_vars>>

do_calculate_hours ==
    /\ call.fn = "calculate_hours"
    /\ Return(calculate_hours(call.start_time, call.end_time))

do_format_hours ==
    /\ call.fn = "format_hours"
    /\ Return(format_hours(call.hours))

do_load_config ==
    /\ call.fn = "load_config"
    /\ Return(load_config(call.file))

do_app_load_config ==
    /\ call.fn = "app_load_config"
    /\ Return(app_load_config(call.file))

do_get_tax_year ==
    /\ call.fn = "get_tax_year"
    /\ Return(get_tax_year(call.work_date, call.tax_year_start_month))

do_app_get_tax_year ==
    /\ call.fn = "app_get_tax_year"
    /\ Return(app_get_tax_year(call.work_date, call.tax_year_start_month))

do_get_tax_year_label ==
    /\ call.fn = "get_tax_year_label"
    /\ Return(get_tax_year_label(call.tax_year, call.tax_year_start_month))

do_app_get_tax_year_label ==
    /\ call.fn = "app_get_tax_year_label"
    /\ Return(app_get_tax_year_label(call.tax_year, call.tax_year_start_month))

do_generate_invoice_number ==
    /\ call.fn = "generate_invoice_number"
    /\ Return(generate_invoice_number(call.year, call.month, call.config))

do_calculate_hmrc_mileage_allowance ==
    /\ call.fn = "calculate_hmrc_mileage_allowance"
    /\ Return(calculate_hmrc_mileage_allowance(call.total_miles))

do_get_client_by_id ==
    /\ call.fn = "get_client_by_id"
    /\ Return(get_client_by_id(call.clients, call.client_id))

do_app_get_client_by_id ==
    /\ call.fn = "app_get_client_by_id"
    /\ Return(app_get_client_by_id(call.clients, call.client_id))

NextCalc ==
    \/ do_calculate_hmrc_mileage_allowance
    \/ do_get_client_by_id
    \/ do_app_get_client_by_id
    \/ do_generate_invoice_number
    \/ do_get_tax_year
    \/ do_app_get_tax_year
    \/ do_get_tax_year_label
    \/ do_app_get_tax_year_label
    \/ do_calculate_hours
    \/ do_format_hours
    \/ do_load_config
    \/ do_app_load_config

SpecCalc == InitCalc /\ [][NextCalc]_vars

Returned(fns) == call.fn \in fns /\ ret.done

\* what the config file of the call holds ({} when there is no file)
StoredConfig == IF call.file.exists THEN call.file.data ELSE EmptyDict

DocumentedKeysLoaded ==
    \A k \in DOMAIN DEFAULT_CONFIG :
        /\ k \in DOMAIN ret.value
        /\ ret.value[k] = IF k \in DOMAIN StoredConfig THEN StoredConfig[k] ELSE DEFAULT_CONFIG[k]

\* C8 as stated: the loaded configuration has, for every documented key, the
\* stored value or else the default, and no key of the file that is not a
\* documented key.
C8_UnknownKeysDropped ==
    Returned({"load_config", "app_load_config"}) =>
        /\ DocumentedKeysLoaded
        /\ \A k \in DOMAIN StoredConfig \ DOMAIN DEFAULT_CONFIG : k \notin DOMAIN ret.value

\* C8 amended: the loaded configuration has, for every documented key, the
\* stored value or else the default; a key of the file that is not a
\* documented key is carried into the loaded configuration with its stored
\* value, and the loaded configuration has no other key.
C8_UnknownKeysKept ==
    Returned({"load_config", "app_load_config"}) =>
        /\ DocumentedKeysLoaded
        /\ \A k \in DOMAIN StoredConfig \ DOMAIN DEFAULT_CONFIG :
              k \in DOMAIN ret.value /\ ret.value[k] = StoredConfig[k]
        /\ DOMAIN ret.value = DOMAIN DEFAULT_CONFIG \cup DOMAIN StoredConfig

\* a file with the rate and an undocumented key but no start month, loaded
C8_Witness ==
    /\ Returned({"load_config"})
    /\ DOMAIN StoredConfig = {"hourly_rate", "theme"}
    /\ ret.value.hourly_rate = 2000
    /\ ret.value.tax_year_start_month = 4

\* C9: for valid times of day calculate_hours returns (end - start)/60 when
\* end >= start and ((24h - start) + end)/60 otherwise (here in minutes, the
\* numerator over 60); the result is in [0, 24), equal times give 0,
\* 23:00 to 01:00 gives 2.0, and the hours stored for such a session are
\* between 0 and 24.
C9_CalculateHours ==
    Returned({"calculate_hours"}) =>
        LET s == call.start_time[1] * 60 + call.start_time[2]
            e == call.end_time[1] * 60 + call.end_time[2]
            stored == NewEntry([client_id |-> "client_1", date |-> Date(2024, 4, 1),
                                start_time |-> call.start_time, end_time |-> call.end_time],
                               DEFAULT_CONFIG, 0)
        IN  /\ e >= s => ret.value = e - s
            /\ e < s => ret.value = (24 * 60 - s) + e
            /\ ret.value >= 0 /\ ret.value < 24 * 60
            /\ s = e => ret.value = 0
            /\ (call.start_time = <<23, 0>> /\ call.end_time = <<1, 0>>) => ret.value = 2 * 60
            /\ stored.hours >= 0 /\ stored.hours <= 2400

\* an overnight session and a session of equal start and end
C9_Witness ==
    /\ Returned({"calculate_hours"})
    /\ \/ call.start_time = <<23, 0>> /\ call.end_time = <<1, 0>> /\ ret.value = 120
       \/ call.start_time = <<9, 30>> /\ call.end_time = <<9, 30>> /\ ret.value = 0

\* C10: format_hours(h) is "{H}h {M}m" with H the integer part of h and M
\* the minute remainder (h - H) * 60 truncated toward zero; M is in 0..59.
C10_FormatHoursTruncates ==
    Returned({"format_hours"}) =>
        LET H == call.hours \div 100
            M == ((call.hours - H * 100) * 60) \div 100
        IN  /\ ret.value = ToString(H) \o "h " \o ToString(M) \o "m"
            /\ M \in 0..59

(***************************************************************************)
(* Two create_entry requests served by two threads of the Flask server.    *)
(* data/entries.json is held as the text on disk.  save_json opens the     *)
(* file with mode "w", which truncates it, and the buffered text reaches   *)
(* the file in one write at the descriptor's own offset 0 when the with    *)
(* block closes the file.                                                  *)
(***************************************************************************)
\* json.dump: the text of a value (TLC's rendering in place of JSON's; one
\* text per value, longer for longer strings)
json_dump(data) == ToString(data)

ConcRequests ==
    {[client_id |-> c, date |-> Date(2024, 4, 1), start_time |-> <<9, 0>>, end_time |-> <<9, 20>>] :
        c \in ClientIdInputs}

\* the entry lists the two requests can produce
ConcEntries == {NewEntry(d, load_config(NoFile), t) : d \in ConcRequests, t \in 0..MaxClock}

ConcLists ==
    {<<>>} \cup {<<e>> : e \in ConcEntries} \cup {<<e, f>> : e \in ConcEntries, f \in ConcEntries}

\* json.load succeeds on the texts json.dump produces and raises
\* JSONDecodeError on any other text
Decodable(text) == \E l \in ConcLists : json_dump(l) = text

json_load(text) == CHOOSE l \in ConcLists : json_dump(l) = text

\* a write of new at offset 0 over a file holding old
Overlay(old, new) == new \o SubSeq(old, Len(new) + 1, Len(old))

InitConc ==
    /\ InitStores
    /\ NoCall
    /\ disk = [exists |-> FALSE, text |-> ""]
    /\ pc = [p \in Procs |-> "start"]
    /\ req \in [Procs -> ConcRequests]
    /\ loaded = [p \in Procs |-> <<>>]
    /\ last_saved = <<>>
    /\ session_state = EmptyDict

\* create_entry up to new_entry appended to the loaded list
c_load(p) ==
    /\ pc[p] = "start"
    /\ IF disk.exists /\ ~Decodable(disk.text)
       THEN /\ pc' = [pc EXCEPT ![p] = "failed"]
            /\ UNCHANGED loaded
       ELSE LET config == load_config(config_file)
                entries == IF disk.exists THEN json_load(disk.text) ELSE <<>>
            IN  /\ loaded' = [loaded EXCEPT ![p] = Append(entries, NewEntry(req[p], config, now))]
                /\ pc' = [pc EXCEPT ![p] = "open"]
    /\ UNCHANGED <<store_vars, now, served, response, calc_vars, disk, req, last_saved, ui_vars>>

\* save_json: open(filepath, "w")
c_open(p) ==
    /\ pc[p] = "open"
    /\ disk' = [exists |-> TRUE, text |-> ""]
    /\ pc' = [pc EXCEPT ![p] = "write"]
    /\ UNCHANGED <<store_vars, now, served, response, calc_vars, req, loaded, last_saved, ui_vars>>

\* save_json: json.dump and the close of the file; the request returns 201
c_write(p) ==
    /\ pc[p] = "write"
    /\ disk' = [exists |-> TRUE, text |-> Overlay(disk.text, json_dump(loaded[p]))]
    /\ last_saved' = loaded[p]
    /\ pc' = [pc EXCEPT ![p] = "done"]
    /\ UNCHANGED <<store_vars, now, served, response, calc_vars, req, loaded, ui_vars>>

NextConc ==
    \/ Tick
    \/ \E p \in Procs : c_load(p)
    \/ \E p \in Procs : c_open(p)
    \/ \E p \in Procs : c_write(p)

SpecConc == InitConc /\ [][NextConc]_vars

BothFinished ==
    /\ \A p \in Procs : pc[p] \in {"done", "failed"}
    /\ \E p \in Procs : pc[p] = "done"

\* C3: when two create_entry requests interleave their load / append / save
\* steps, the file after both finish holds exactly the full list written by
\* the request that saved last (never a mix or a partial list).
C3_LastWriterWins ==
    BothFinished => Decodable(disk.text) /\ json_load(disk.text) = last_saved

(***************************************************************************)
(* Tax years                                                               *)
(***************************************************************************)
\* C11: for every date and start month in 1..12, get_tax_year (both copies)
\* returns date.year when date.month >= startMonth and date.year - 1
\* otherwise; with start month 4, 2024-03-31 gives 2023 and 2024-04-01 gives
\* 2024.
C11_GetTaxYear ==
    Returned({"get_tax_year", "app_get_tax_year"}) =>
        LET d == call.work_date
            s == call.tax_year_start_month
        IN  /\ d.month >= s => ret.value = d.year
            /\ d.month < s => ret.value = d.year - 1
            /\ (d = Date(2024, 3, 31) /\ s = 4) => ret.value = 2023
            /\ (d = Date(2024, 4, 1) /\ s = 4) => ret.value = 2024

\* the first day of a tax year that starts in April
C11_Witness ==
    /\ Returned({"get_tax_year"})
    /\ call.work_date = Date(2024, 4, 1)
    /\ call.tax_year_start_month = 4
    /\ ret.value = 2024

\* the label "fy/fy+1 (Start fy - End fy+1)" with End the month before Start
ExpectedLabel(fy, s) ==
    LET e == IF s = 1 THEN 12 ELSE s - 1
    IN  ToString(fy) \o "/" \o ToString(fy + 1) \o " (" \o MonthName(s) \o " "
        \o ToString(fy) \o " - " \o MonthName(e) \o " " \o ToString(fy + 1) \o ")"

\* C12: for every fiscal year fy and start month s in 1..12 the label given
\* by the HTTP API's and by the form UI's get_tax_year_label is
\* "fy/fy+1 (StartMonthName fy - EndMonthName fy+1)" with end month s - 1,
\* December when s = 1.
C12_TaxYearLabel ==
    Returned({"get_tax_year_label", "app_get_tax_year_label"}) =>
        ret.value = ExpectedLabel(call.tax_year, call.tax_year_start_month)

(***************************************************************************)
(* The reports and the invoice, asked of stores that earlier requests      *)
(* have filled                                                             *)
(***************************************************************************)
MaxReportCalls == 2

\* the session POST /api/entries stores for client c on date d
SessionOn(c, d, p, t) ==
    NewEntry([client_id |-> c, date |-> d, start_time |-> p[1], end_time |-> p[2]],
             load_config(NoFile), t)

\* the expense POST /api/expenses stores
ExpenseOn(c, d, amount, t) ==
    [id |-> IsoFormat(t), client_id |-> c, date |-> d, amount |-> RoundMoney(amount),
     description |-> "Cleaning supplies"]

Short == << <<9, 0>>, <<9, 20>> >>
Night == << <<23, 0>>, <<1, 0>> >>

\* fourteen months of sessions, March 2024 to April 2025, not stored in date
\* order
YearOfSessions ==
    << SessionOn("client_1", Date(2024, 9, 2), Short, 0),
       SessionOn("client_1", Date(2024, 4, 1), Night, 1),
       SessionOn("0", Date(2025, 1, 6), Short, 2),
       SessionOn("client_1", Date(2024, 3, 31), Short, 3),
       SessionOn("client_1", Date(2024, 12, 2), Night, 4),
       SessionOn("0", Date(2024, 6, 3), Night, 5),
       SessionOn("client_1", Date(2025, 4, 7), Short, 6),
       SessionOn("client_1", Date(2024, 5, 6), Short, 7),
       SessionOn("client_1", Date(2025, 3, 3), Night, 8),
       SessionOn("0", Date(2024, 11, 4), Short, 9),
       SessionOn("client_1", Date(2024, 7, 1), Short, 10),
       SessionOn("client_1", Date(2025, 2, 3), Short, 11),
       SessionOn("client_1", Date(2024, 10, 7), Night, 12),
       SessionOn("0", Date(2024, 8, 5), Short, 13),
       SessionOn("client_1", Date(2024, 4, 1), Short, 14) >>

\* sessions around the change from year 999 to year 1000
OldSessions ==
    << SessionOn("client_1", Date(1000, 1, 15), Short, 0),
       SessionOn("client_1", Date(999, 12, 15), Night, 1),
       SessionOn("0", Date(999, 12, 20), Short, 2) >>

FewSessions ==
    << SessionOn("client_1", Date(2024, 4, 20), Night, 0),
       SessionOn("0", Date(2024, 4, 1), Short, 1),
       SessionOn("client_1", Date(2024, 4, 1), Short, 2),
       SessionOn("client_1", Date(2024, 3, 31), Short, 3) >>

EntryFiles == {NoFile} \cup {save_json(l) : l \in {YearOfSessions, OldSessions, FewSessions}}

FewExpenses ==
    << ExpenseOn("client_1", Date(2024, 4, 2), 1234, 0),
       ExpenseOn("client_1", Date(2024, 2, 10), 20000, 1),
       ExpenseOn("0", Date(2024, 4, 15), 700, 2),
       ExpenseOn("0", Date(2024, 4, 1), 5500, 3),
       ExpenseOn("client_1", Date(1000, 2, 1), 999, 4) >>

ExpenseFiles == {NoFile, save_json(FewExpenses)}

ReportConfigFiles == {NoFile} \cup {save_json([tax_year_start_month |-> m]) : m \in 1..12}

MonthlyArgs ==
    [client_id : {"", "client_1", "nobody"}, year : {2024}, month : {4}]
    \cup [client_id : {""}, year : {0, 999, 2024}, month : {0, 12}]

TaxYearArgs ==
    [client_id : {"", "client_1"}, tax_year : {999, 2023, 2024}]
    \cup {[client_id |-> "nobody", tax_year |-> 2024], [client_id |-> "", tax_year |-> 1999],
          [client_id |-> ""], [client_id |-> "client_1"]}

InvoiceArgs ==
    [client_id : {"client_1", "0"}, year : {2024}, month : {4}]
    \cup {[client_id |-> "client_1", year |-> 2024, month |-> 2],
          [client_id |-> "client_1", year |-> 2024, month |-> 13],
          [client_id |-> "", year |-> 2024, month |-> 4],
          [client_id |-> "nobody", year |-> 2024, month |-> 4]}

PageArgs == [selected_filter_id : {"", "client_1"}, selected_tax_year : {999, 2023, 2024}]

InitReport ==
    /\ entries_file \in EntryFiles
    /\ expenses_file \in ExpenseFiles
    /\ clients_file = NoFile
    /\ config_file \in ReportConfigFiles
    /\ now \in {0, TicksPerDay - 1}
    /\ served = 0
    /\ response = 0
    /\ NoCall
    /\ NoRequests

\* a request that stores the entries in date order while answering
AnswerAndSort(c, value, status) ==
    /\ served < MaxReportCalls
    /\ served' = served + 1
    /\ response' = status
    /\ call' = c
    /\ ret' = [done |-> TRUE, value |-> value]
    /\ entries_file' = save_json(SortedByDate(load_json(entries_file, <<>>)))
    /\ UNCHANGED <<expenses_file, clients_file, config_file, conc_vars, ui_vars>>

\* a read-only request: it is answered with value and stores nothing
Answer(c, value, status) ==
    /\ served < MaxReportCalls
    /\ served' = served + 1
    /\ response' = status
    /\ call' = c
    /\ ret' = [done |-> TRUE, value |-> value]
    /\ UNCHANGED <<store_vars, conc_vars, ui_vars>>

do_monthly_report(args) ==
    /\ Answer([fn |-> "monthly_report", args |-> args],
              monthly_report(args.client_id, args.year, args.month), 200)
    /\ UNCHANGED now

do_taxyear_report(args) ==
    LET value == taxyear_report(args.client_id, args)
    IN  /\ Answer([fn |-> "taxyear_report", args |-> args], value, value.status)
        /\ UNCHANGED now

\* the tax year comes from the selectbox, which offers the tax years of the
\* filtered records
do_tax_year_page(args) ==
    LET tsm == app_load_config(config_file).tax_year_start_month
        filtered == filter_by_client(load_json(entries_file, <<>>), args.selected_filter_id)
                        \o filter_by_client(load_json(expenses_file, <<>>), args.selected_filter_id)
    IN  /\ args.selected_tax_year \in {app_get_tax_year(d, tsm) : d \in DatesOf(filtered)}
        /\ Answer([fn |-> "tax_year_page", args |-> args],
                  tax_year_page(args.selected_filter_id, args.selected_tax_year), 200)
        /\ UNCHANGED now

\* the clock may move on by a tick between the two datetime.now() calls
do_invoice(args) ==
    \E elapsed \in 0..1 :
        LET value == invoice(args, now, now + elapsed)
        IN  /\ now + elapsed <= TicksPerDay
            /\ now' = now + elapsed
            /\ Answer([fn |-> "invoice", args |-> args], value, value.status)

NextReport ==
    \/ \E args \in MonthlyArgs : do_monthly_report(args)
    \/ \E args \in TaxYearArgs : do_taxyear_report(args)
    \/ \E args \in PageArgs : do_tax_year_page(args)
    \/ \E args \in InvoiceArgs : do_invoice(args)

SpecReport == InitReport /\ [][NextReport]_vars

(***************************************************************************)
(* Properties of the reports                                               *)
(***************************************************************************)
ApiReport(fn) == call.fn = fn /\ ret.done /\ response = 200

PageReport == call.fn = "tax_year_page" /\ ret.done /\ ret.value.shown = "report"

\* months counted from year 0: the twelve months of fiscal year fy with start
\* month s are FirstMonth(fy, s) .. FirstMonth(fy, s) + 11
MonthIndex(d) == d.year * 12 + d.month - 1

FirstMonth(fy, s) == fy * 12 + s - 1

InFiscalYear(d, fy, s) == MonthIndex(d) \in FirstMonth(fy, s) .. FirstMonth(fy, s) + 11

\* "%b %Y" of the month with index n
MonthLabel(n) == SubSeq(MonthName((n % 12) + 1), 1, 3) \o " " \o ToString(n \div 12)

\* the indices of the stored records of client c ("" for all) in fiscal year fy
SelectedOfYear(items, c, fy, s) ==
    {i \in DOMAIN items : c \in {"", items[i].client_id} /\ InFiscalYear(items[i].date, fy, s)}

FieldOf(items, field) == [i \in DOMAIN items |-> items[i][field]]

\* C13: a tax-year report (HTTP API or Tax Year page) for fiscal year fy and
\* start month s counts and sums exactly the stored sessions and expenses of
\* the selected client whose date lies in the twelve months from (fy, s);
\* every breakdown row is one of those twelve months and there are at most 12
\* rows; and every stored record lies in exactly one fiscal year, the one
\* get_tax_year gives.
C13_TaxYearSelection ==
    LET s == EffectiveConfig.tax_year_start_month
        Window(fy) == {MonthLabel(FirstMonth(fy, s) + k) : k \in 0..11}
    IN  /\ (ApiReport("taxyear_report") /\ "tax_year" \in DOMAIN call.args) =>
              LET fy == call.args.tax_year
                  es == SelectedOfYear(StoredEntries, call.args.client_id, fy, s)
                  xs == SelectedOfYear(StoredExpenses, call.args.client_id, fy, s)
                  r == ret.value
              IN  /\ r.sessions = Cardinality(es)
                  /\ r.total_hours = SumOver(es, FieldOf(StoredEntries, "hours"))
                  /\ r.total_labour = SumOver(es, FieldOf(StoredEntries, "amount"))
                  /\ r.total_expenses = SumOver(xs, FieldOf(StoredExpenses, "amount"))
                  /\ \A i \in DOMAIN r.breakdown : r.breakdown[i].label \in Window(fy)
                  /\ Len(r.breakdown) <= 12
        /\ PageReport =>
              LET fy == call.args.selected_tax_year
                  es == SelectedOfYear(StoredEntries, call.args.selected_filter_id, fy, s)
                  xs == SelectedOfYear(StoredExpenses, call.args.selected_filter_id, fy, s)
                  r == ret.value
              IN  /\ r.sessions = Cardinality(es)
                  /\ r.total_hours = SumOver(es, FieldOf(StoredEntries, "hours"))
                  /\ r.total_labour = SumOver(es, FieldOf(StoredEntries, "amount"))
                  /\ r.total_expenses = SumOver(xs, FieldOf(StoredExpenses, "amount"))
                  /\ \A i \in DOMAIN r.breakdown_data : r.breakdown_data[i].Month \in Window(fy)
                  /\ Len(r.breakdown_data) <= 12
        /\ \A d \in DatesOf(StoredEntries) \cup DatesOf(StoredExpenses) :
              /\ Cardinality({fy \in (d.year - 2)..(d.year + 2) : InFiscalYear(d, fy, s)}) = 1
              /\ InFiscalYear(d, get_tax_year(d, s), s)

\* the report of a fiscal year that starts in April and has sessions in each
\* of its twelve months, out of fourteen months of sessions
C13_Witness ==
    /\ ApiReport("taxyear_report")
    /\ call.args = [client_id |-> "", tax_year |-> 2024]
    /\ EffectiveConfig.tax_year_start_month = 4
    /\ StoredEntries = YearOfSessions
    /\ Len(ret.value.breakdown) = 12
    /\ ret.value.sessions = 13

\* C14: every report's totals are the sums over its filtered records with
\* total = labour + expenses, and a request whose filter matches nothing is
\* answered (never an error) with all-zero totals and empty sequences.
C14_TotalsNeverAnError ==
    /\ \A c \in {"", "client_1", "nobody"} :
          LET r == monthly_report(c, 2024, 4)
          IN  /\ r.total_labour = StoredLabour(c, <<2024, 4>>)
              /\ r.total_amount = r.total_labour + r.total_expenses
              /\ r.sessions = 0 => r.total_hours = 0 /\ r.total_labour = 0 /\ r.entries = <<>>
    /\ \A c \in {"", "nobody"}, ty \in {1999, 2024} :
          LET r == taxyear_report(c, [client_id |-> c, tax_year |-> ty])
              nothing == c = "nobody" \/ ty = 1999
          IN  /\ r.status = 200
              /\ r.total_labour = StoredLabourOfTaxYear(c, ty)
              /\ r.total_amount = r.total_labour + r.total_expenses
              /\ nothing => /\ r.sessions = 0 /\ r.total_hours = 0 /\ r.total_labour = 0
                            /\ r.total_expenses = 0 /\ r.total_amount = 0
                            /\ r.breakdown = <<>>

\* the month keys of the records of client c
MonthsOf(c) ==
    {MonthKey(d) : d \in DatesOf(filter_by_client(StoredEntries, c))
                        \cup DatesOf(filter_by_client(StoredExpenses, c))}

\* C15: totals are additive over months.  The monthly reports of a client,
\* summed over all the months its records fall in, give the totals of all
\* its records; and in a tax-year report (HTTP API or Tax Year page) the
\* breakdown rows' sessions, hours, labour, expenses and totals sum to the
\* report's overall sessions, hours, labour, expenses and total.
C15_TotalsAdditive ==
    /\ (ApiReport("monthly_report") /\ call.args.year # 0 /\ call.args.month # 0) =>
          LET c == call.args.client_id
              asked == call.args.year * 100 + call.args.month
              months == MonthsOf(c) \cup {asked}
              month_report == [k \in months |->
                                  IF k = asked THEN ret.value
                                  ELSE monthly_report(c, k \div 100, k % 100)]
              Sum(field) == SumOver(months, [k \in months |-> month_report[k][field]])
              es == filter_by_client(StoredEntries, c)
              xs == filter_by_client(StoredExpenses, c)
          IN  /\ Sum("sessions") = Len(es)
              /\ Sum("total_hours") = SumOf(es, "hours")
              /\ Sum("total_labour") = SumOf(es, "amount")
              /\ Sum("total_expenses") = SumOf(xs, "amount")
              /\ Sum("total_amount") = SumOf(es, "amount") + SumOf(xs, "amount")
    /\ (ApiReport("taxyear_report")) =>
          LET r == ret.value
              Sum(field) == SumOver(DOMAIN r.breakdown, FieldOf(r.breakdown, field))
          IN  /\ Sum("sessions") = r.sessions
              /\ Sum("hours") = r.total_hours
              /\ Sum("labour") = r.total_labour
              /\ Sum("expenses") = r.total_expenses
              /\ Sum("total") = r.total_amount
    /\ PageReport =>
          LET r == ret.value
              Sum(field) == SumOver(DOMAIN r.breakdown_data, FieldOf(r.breakdown_data, field))
          IN  /\ Sum("Sessions") = r.sessions
              /\ Sum("hours") = r.total_hours
              /\ Sum("labour") = r.total_labour
              /\ Sum("expenses") = r.total_expenses
              /\ Sum("Total") = r.total_income

\* a tax-year report of three months, one of them with an expense only
C15_Witness ==
    /\ ApiReport("taxyear_report")
    /\ StoredEntries = FewSessions
    /\ StoredExpenses = FewExpenses
    /\ Len(ret.value.breakdown) = 3
    /\ ret.value.breakdown[1].sessions = 0
    /\ ret.value.breakdown[1].expenses = 2000
    /\ ret.value.total_amount > ret.value.total_labour

\* the labels of the months that hold a selected record of client c in
\* fiscal year fy, each month once, in chronological order
ChronologicalLabels(c, fy, s) ==
    LET months == {MonthIndex(StoredEntries[i].date) : i \in SelectedOfYear(StoredEntries, c, fy, s)}
                  \cup {MonthIndex(StoredExpenses[i].date) : i \in SelectedOfYear(StoredExpenses, c, fy, s)}
        ordered == SortedAsc(months)
    IN  [i \in DOMAIN ordered |-> MonthLabel(ordered[i])]

\* C16: the monthly breakdown of a fiscal year (HTTP API or Tax Year page)
\* has exactly one row per month that holds a selected session or expense,
\* and the rows are in strictly ascending chronological order, whatever the
\* order the records were stored in.
C16_BreakdownChronological ==
    LET s == EffectiveConfig.tax_year_start_month
    IN  /\ (ApiReport("taxyear_report") /\ "tax_year" \in DOMAIN call.args) =>
              FieldOf(ret.value.breakdown, "label")
                  = ChronologicalLabels(call.args.client_id, call.args.tax_year, s)
        /\ PageReport =>
              FieldOf(ret.value.breakdown_data, "Month")
                  = ChronologicalLabels(call.args.selected_filter_id, call.args.selected_tax_year, s)

\* what two answers to the same request must agree on: everything, but for
\* an invoice the two dates, which follow the clock
Comparable(value) ==
    IF call.fn = "invoice" /\ value.status = 200
    THEN [value EXCEPT !.invoice_date = 0, !.due_date = 0]
    ELSE value

\* C17: the monthly report, the tax-year report, the Tax Year page and the
\* invoice store nothing (every stored list, record and the config is left as
\* it was), and a request repeated on the same stores gets the same totals,
\* breakdown and item sequences.
C17_ReportsReadOnly ==
    [][ /\ store_vars' = store_vars
        /\ (ret.done /\ call' = call) => Comparable(ret.value)' = Comparable(ret.value) ]_vars

\* a tax-year report with a breakdown, answered for the second time
C17_Witness ==
    /\ served = 2
    /\ ApiReport("taxyear_report")
    /\ StoredEntries = FewSessions
    /\ Len(ret.value.breakdown) >= 2

\* C18: the total hours, labour, expenses and total due of an invoice equal
\* the totals of the monthly report for the same client, year and month.
C18_InvoiceMatchesMonthlyReport ==
    ApiReport("invoice") =>
        LET report == monthly_report(call.args.client_id, call.args.year, call.args.month)
        IN  /\ ret.value.total_hours = report.total_hours
            /\ ret.value.total_labour = report.total_labour
            /\ ret.value.total_expenses = report.total_expenses
            /\ ret.value.total_amount = report.total_amount

\* an invoice for April 2024 with two sessions and an expense of the client
C18_Witness ==
    /\ ApiReport("invoice")
    /\ call.args = [client_id |-> "client_1", year |-> 2024, month |-> 4]
    /\ StoredEntries = FewSessions
    /\ StoredExpenses = FewExpenses
    /\ ret.value.total_hours = 233
    /\ ret.value.total_expenses = 123
    /\ ret.value.total_amount = 3623

\* C19: on every generated invoice the due date is the invoice date plus
\* config.payment_terms days, also when the generation spans a change of
\* calendar day.
C19_DueDateFromInvoiceDate ==
    ApiReport("invoice") =>
        ret.value.due_date = ret.value.invoice_date + EffectiveConfig.payment_terms

\* C20: the invoice number is the prefix, a hyphen, the year and the month
\* as two digits (INV, 2024, 3 gives INV-202403), and with the same prefix no
\* other (year, month) gets the same number.
C20_InvoiceNumber ==
    Returned({"generate_invoice_number"}) =>
        LET prefix == call.config.invoice_prefix
            y == call.year
            m == call.month
        IN  /\ ret.value = prefix \o "-" \o ToString(y) \o ToString(m \div 10) \o ToString(m % 10)
            /\ (prefix = "INV" /\ y = 2024 /\ m = 3) => ret.value = "INV-202403"
            /\ \A y2 \in InvoiceYears, m2 \in 1..12 :
                  <<y2, m2>> # <<y, m>> =>
                      generate_invoice_number(y2, m2, call.config) # ret.value

\* the number of the invoice for March 2024
C20_Witness ==
    /\ Returned({"generate_invoice_number"})
    /\ call.year = 2024
    /\ call.month = 3
    /\ ret.value = "INV-202403"

(***************************************************************************)
(* Properties of the invoice                                               *)
(***************************************************************************)
\* the number of times x occurs in the sequence items
Occurrences(items, x) == Cardinality({i \in DOMAIN items : items[i] = x})

\* b has the elements of a, each as many times
Permutation(a, b) ==
    /\ Len(a) = Len(b)
    /\ \A i \in DOMAIN a : Occurrences(a, a[i]) = Occurrences(b, a[i])

AscendingDates(items) ==
    \A i, j \in DOMAIN items : i < j => DateKey(items[i].date) <= DateKey(items[j].date)

\* what an invoice line shows of a stored session / expense
SessionLine(e) ==
    [date |-> e.date, start_time |-> e.start_time, end_time |-> e.end_time,
     hours |-> e.hours, hourly_rate |-> e.hourly_rate, amount |-> e.amount]

ExpenseLine(e) == [date |-> e.date, description |-> e.description, amount |-> e.amount]

\* the stored records of client c in the month, in stored order
OfClientAndMonth(items, c, year, month) ==
    SelectSeq(items, LAMBDA e : e.client_id = c /\ e.date.year = year /\ e.date.month = month)

\* C21: on every invoice the session lines and the expense lines are each in
\* ascending date order and are a permutation of the client's sessions and
\* expenses of the month (none dropped, duplicated or filtered again),
\* whatever order they were stored in.
C21_InvoiceItemsSorted ==
    ApiReport("invoice") =>
        LET a == call.args
            sessions == OfClientAndMonth(StoredEntries, a.client_id, a.year, a.month)
            expenses == OfClientAndMonth(StoredExpenses, a.client_id, a.year, a.month)
        IN  /\ AscendingDates(ret.value.entries)
            /\ AscendingDates(ret.value.expenses)
            /\ Permutation([i \in DOMAIN sessions |-> SessionLine(sessions[i])], ret.value.entries)
            /\ Permutation([i \in DOMAIN expenses |-> ExpenseLine(expenses[i])], ret.value.expenses)

\* an invoice whose two sessions were stored later date first
C21_Witness ==
    /\ ApiReport("invoice")
    /\ call.args = [client_id |-> "client_1", year |-> 2024, month |-> 4]
    /\ StoredEntries = FewSessions
    /\ Len(ret.value.entries) = 2
    /\ ret.value.entries[1].date = Date(2024, 4, 1)
    /\ ret.value.entries[2].date = Date(2024, 4, 20)

(***************************************************************************)
(* Mileage allowance and client lookup                                     *)
(***************************************************************************)
\* C22: the mileage allowance is 45p a mile up to 10,000 miles and
\* 4,500.00 plus 25p a mile beyond; it is 4,500.00 at 10,000 miles and
\* 5,000.00 at 12,000, the two branches meet at the boundary, and it never
\* decreases when the miles increase.
C22_MileageAllowance ==
    Returned({"calculate_hmrc_mileage_allowance"}) =>
        LET m == call.total_miles
            v == ret.value
        IN  /\ m <= 10000 => v = 45 * m
            /\ m > 10000 => v = 450000 + 25 * (m - 10000)
            /\ m = 10000 => v = 450000 /\ v = 450000 + 25 * (m - 10000)
            /\ m = 12000 => v = 500000
            /\ \A m2 \in MileSamples :
                    m2 <= m => calculate_hmrc_mileage_allowance(m2) <= v

\* the allowance of a mileage above the boundary
C22_Witness ==
    /\ Returned({"calculate_hmrc_mileage_allowance"})
    /\ call.total_miles = 12000
    /\ ret.value = 500000

\* the position of the first client of the list with the id, 0 if there is none
FirstWithId(clients, client_id) ==
    IF \E i \in DOMAIN clients : clients[i].id = client_id
    THEN CHOOSE i \in DOMAIN clients :
            /\ clients[i].id = client_id
            /\ \A j \in DOMAIN clients : clients[j].id = client_id => i <= j
    ELSE 0

\* C23: looking a client up by id never fails: an id of the list gives that
\* client, an absent id gives the first client of a non-empty list and the
\* placeholder (id "default", name "Unknown") of an empty one.
C23_ClientLookupTotal ==
    Returned({"get_client_by_id", "app_get_client_by_id"}) =>
        LET cs == call.clients
            at == FirstWithId(cs, call.client_id)
        IN  /\ at > 0 => ret.value = cs[at] /\ ret.value.id = call.client_id
            /\ at = 0 /\ cs # <<>> => ret.value = cs[1]
            /\ at = 0 /\ cs = <<>> =>
                    ret.value.id = "default" /\ ret.value.name = "Unknown"

\* an absent id looked up in a list of two clients
C23_Witness ==
    /\ Returned({"get_client_by_id"})
    /\ call.clients = <<ClientB, ClientA>>
    /\ call.client_id = "2"
    /\ ret.value = ClientB

(***************************************************************************)
(* backfill_miles.py: the one-off script that fills in the miles of the    *)
(* stored sessions from the clients' default_miles                         *)
(***************************************************************************)
MaxBackfillRuns == 2

\* a stored session with a miles field
WithMiles(entry, miles) ==
    [k \in DOMAIN entry \cup {"miles"} |-> IF k = "miles" THEN miles ELSE entry[k]]

\* "--apply" in sys.argv, always true
apply_always(argv) == TRUE

\* "--apply" in sys.argv
apply_flag(argv) == \E i \in DOMAIN argv : argv[i] = "--apply"

\* client_miles.get(client_id, 0) of the dict comprehension: the last client
\* with the id gives its default_miles, 0 if it has none
client_miles(clients, client_id) ==
    LET S == {i \in DOMAIN clients : clients[i].id = client_id}
    IN  IF S = {} THEN 0
        ELSE DictGet(clients[CHOOSE i \in S : \A j \in S : j <= i], "default_miles", 0)

\* the test of the loop without the look at the current miles
needs_miles_any(clients, entry) ==
    client_miles(clients, DictGet(entry, "client_id", "")) > 0

\* current == 0 and default > 0
needs_miles(clients, entry) ==
    /\ DictGet(entry, "miles", 0) = 0
    /\ client_miles(clients, DictGet(entry, "client_id", "")) > 0

\* the entries list after the loop
backfilled(clients, entries, apply) ==
    [i \in DOMAIN entries |->
        IF apply /\ needs_miles(clients, entries[i])
        THEN WithMiles(entries[i], client_miles(clients, entries[i].client_id))
        ELSE entries[i]]

\* the value of updated after the loop
updated_count(clients, entries) ==
    Cardinality({i \in DOMAIN entries : needs_miles(clients, entries[i])})

BackfillSession(c, day) == SessionOn(c, Date(2024, 4, day), Short, day)

BackfillEntryLists ==
    { <<>>,
      << BackfillSession("client_1", 1) >>,
      << WithMiles(BackfillSession("client_1", 1), 0), BackfillSession("1", 2) >>,
      << WithMiles(BackfillSession("client_1", 1), 7), BackfillSession("client_1", 2),
         BackfillSession("1", 3) >>,
      << BackfillSession("2", 1), WithMiles(BackfillSession("1", 2), 3),
         WithMiles(BackfillSession("1", 3), 0) >>,
      << BackfillSession("1", 1), BackfillSession("client_1", 2), BackfillSession("1", 3) >> }

BackfillEntryFiles == {NoFile} \cup {save_json(es) : es \in BackfillEntryLists}

ClientD == [id |-> "client_1", name |-> "Client 1", address |-> "Address", default_miles |-> 5]
ClientE == [id |-> "1", name |-> "Ann", address |-> ""]

BackfillClientLists ==
    {<<>>, <<ClientA>>, <<ClientD>>, <<ClientA, ClientB>>, <<ClientB, ClientD>>, <<ClientD, ClientE>>}

BackfillClientFiles == {NoFile} \cup {save_json(cs) : cs \in BackfillClientLists}

Argvs == {<<>>, <<"--apply">>, <<"--dry-run">>}

InitBackfill ==
    /\ entries_file \in BackfillEntryFiles
    /\ clients_file \in BackfillClientFiles
    /\ expenses_file = NoFile
    /\ config_file = NoFile
    /\ now = 0
    /\ served = 0
    /\ response = 0
    /\ NoCall
    /\ NoRequests

\* one run of the script; response is its exit status, ret.value the number
\* of sessions it counted
main(argv) ==
    /\ served < MaxBackfillRuns
    /\ served' = served + 1
    /\ call' = [fn |-> "backfill_miles", argv |-> argv]
    /\ IF ~clients_file.exists \/ ~entries_file.exists
       THEN /\ response' = 1
            /\ ret' = [done |-> FALSE]
            /\ UNCHANGED entries_file
       ELSE LET apply == apply_flag(argv)
                clients == clients_file.data
                entries == entries_file.data
                updated == updated_count(clients, entries)
            IN  /\ response' = 0
                /\ ret' = [done |-> TRUE, value |-> updated]
                /\ IF updated = 0 THEN UNCHANGED entries_file
                   ELSE IF apply
                   THEN entries_file' = save_json(backfilled(clients, entries, apply))
                   ELSE UNCHANGED entries_file
    /\ UNCHANGED <<expenses_file, clients_file, config_file, now, conc_vars, ui_vars>>

NextBackfill == \E argv \in Argvs : main(argv)

SpecBackfill == InitBackfill /\ [][NextBackfill]_vars

\* the command line of the run asked to apply
AskedToApply(argv) == \E i \in DOMAIN argv : argv[i] = "--apply"

\* C24: a run of the backfill script without --apply is a dry run: it leaves
\* the entries file (and every other file) as it was.
C24_DryRunWritesNothing ==
    [][(served' = served + 1 /\ call'.fn = "backfill_miles" /\ ~AskedToApply(call'.argv))
            => UNCHANGED store_vars]_vars

\* a dry run that counted two sessions to update and changed none
C24_Witness ==
    /\ call.fn = "backfill_miles"
    /\ call.argv = <<>>
    /\ ret.done
    /\ ret.value = 2
    /\ served = 1
    /\ \A i \in DOMAIN entries_file.data : "miles" \notin DOMAIN entries_file.data[i]

\* the default_miles of the client with the id, 0 without such a client or
\* such a field
DefaultMilesOf(clients, id) ==
    IF \E i \in DOMAIN clients : clients[i].id = id
    THEN LET c == clients[CHOOSE i \in DOMAIN clients : clients[i].id = id]
         IN  IF "default_miles" \in DOMAIN c THEN c.default_miles ELSE 0
    ELSE 0

MilesMissingOrZero(e) == "miles" \notin DOMAIN e \/ e.miles = 0

\* C29: a run with --apply sets miles to the client's default_miles on exactly
\* the sessions whose miles is missing or 0 and whose client has a
\* default_miles above 0; every other session, field and file stays as it
\* was; and a second --apply run changes nothing.
C29_BackfillApply ==
    [][(served' = served + 1 /\ call'.fn = "backfill_miles" /\ AskedToApply(call'.argv)
            /\ response' = 0)
        => LET old == entries_file.data
               new == entries_file'.data
               clients == clients_file.data
           IN  /\ DOMAIN new = DOMAIN old
               /\ \A i \in DOMAIN old :
                    LET d == DefaultMilesOf(clients, old[i].client_id)
                    IN  IF MilesMissingOrZero(old[i]) /\ d > 0
                        THEN /\ new[i].miles = d
                             /\ \A k \in DOMAIN old[i] \ {"miles"} : new[i][k] = old[i][k]
                             /\ DOMAIN new[i] = DOMAIN old[i] \cup {"miles"}
                        ELSE new[i] = old[i]
               /\ UNCHANGED <<expenses_file, clients_file, config_file>>
               /\ (call.fn = "backfill_miles" /\ AskedToApply(call.argv) /\ response = 0)
                    => entries_file' = entries_file]_vars

\* a second --apply run after one that set the miles of two of three sessions
C29_Witness ==
    /\ call.fn = "backfill_miles"
    /\ call.argv = <<"--apply">>
    /\ served = 2
    /\ ret.done
    /\ ret.value = 0
    /\ clients_file.data = <<ClientB, ClientD>>
    /\ Len(entries_file.data) = 3
    /\ \A i \in 1..3 : "miles" \in DOMAIN entries_file.data[i]
    /\ entries_file.data[1].miles = 7
    /\ entries_file.data[2].miles = 5
    /\ entries_file.data[3].miles = 12

(***************************************************************************)
(* The hours shown for a stored session                                    *)
(***************************************************************************)
\* C25: format_hours applied to the stored hours of a session shows exactly
\* the whole minutes elapsed between its start and end time (a 20 minute
\* session shows "0h 20m").
C25_StoredHoursShowElapsedMinutes ==
    \A i \in DOMAIN StoredEntries :
        LET e == StoredEntries[i]
            m == ElapsedMinutes(e)
        IN  format_hours(e.hours) = ToString(m \div 60) \o "h " \o ToString(m % 60) \o "m"

(***************************************************************************)
(* app.py: Data Management on the Settings page.  A press of a button      *)
(* reruns the script with that button's st.button() returning True;        *)
(* session_state survives the reruns.                                      *)
(***************************************************************************)
MaxPresses == 4

\* st.session_state.get('confirm_delete'); "None" stands for None
confirm_delete == DictGet(session_state, "confirm_delete", "None")

\* the buttons the last run of the script drew: the confirmation buttons
\* only while confirm_delete names their store
Rendered ==
    {"clear_entries", "clear_expenses"}
    \cup (IF confirm_delete = "entries" THEN {"yes_entries", "no_entries"} ELSE {})
    \cup (IF confirm_delete = "expenses" THEN {"yes_expenses", "no_expenses"} ELSE {})

\* a Yes that deletes whichever store is pending
yes_pressed_any(flag, pressed, what) == flag # "None" /\ pressed \in {"yes_entries", "yes_expenses"}

\* the Yes button of the confirmation of `what` is drawn and returns True
yes_pressed(flag, pressed, what) == flag = what /\ pressed = "yes_" \o what

\* the No button of the confirmation of `what` is drawn and returns True
no_pressed(flag, pressed, what) == flag = what /\ pressed = "no_" \o what

\* one rerun of the Settings page from "Data Management" on
data_management(pressed) ==
    LET flag1 == IF pressed = "clear_entries" THEN "entries" ELSE confirm_delete
        flag2 == IF pressed = "clear_expenses" THEN "expenses" ELSE flag1
        yes_entries == yes_pressed(flag2, pressed, "entries")
        no_entries == no_pressed(flag2, pressed, "entries")
        \* st.rerun() in the entries block ends the run
        flag3 == IF yes_entries \/ no_entries THEN "None" ELSE flag2
        reached == ~(yes_entries \/ no_entries)
        yes_expenses == reached /\ yes_pressed(flag3, pressed, "expenses")
        no_expenses == reached /\ no_pressed(flag3, pressed, "expenses")
        flag4 == IF yes_expenses \/ no_expenses THEN "None" ELSE flag3
    IN  /\ pressed \in Rendered
        /\ served < MaxPresses
        /\ served' = served + 1
        /\ response' = 200
        /\ call' = [fn |-> "data_management", pressed |-> pressed]
        /\ entries_file' = IF yes_entries THEN save_json(<<>>) ELSE entries_file
        /\ expenses_file' = IF yes_expenses THEN save_json(<<>>) ELSE expenses_file
        /\ session_state' = [confirm_delete |-> flag4]
        /\ UNCHANGED <<clients_file, config_file, now, ret, conc_vars>>

Buttons ==
    {"clear_entries", "clear_expenses", "yes_entries", "no_entries", "yes_expenses",
     "no_expenses"}

InitSettings ==
    /\ entries_file \in EntryFiles
    /\ expenses_file \in ExpenseFiles
    /\ clients_file = NoFile
    /\ config_file = NoFile
    /\ now = 0
    /\ served = 0
    /\ response = 0
    /\ NoCall
    /\ NoRequests

NextSettings == \E pressed \in Buttons : data_management(pressed)

SpecSettings == InitSettings /\ [][NextSettings]_vars

\* C26: the entries are cleared only by a rerun in which confirm_delete is
\* "entries" and Yes is pressed; confirm_delete becomes "entries" only by a
\* press of Clear Entries and stops being it at a No or a Clear Expenses, so
\* the Yes needs a preceding Clear Entries with neither in between; a No or
\* the confirmation of the expenses never clears the entries; and after any
\* Yes or No confirm_delete is None.
C26_ClearEntriesNeedsConfirmation ==
    [][LET pressed == call'.pressed
       IN  served' = served + 1 /\ call'.fn = "data_management" =>
            /\ entries_file' # entries_file =>
                    /\ pressed = "yes_entries"
                    /\ confirm_delete = "entries"
                    /\ entries_file' = save_json(<<>>)
            /\ (confirm_delete' = "entries" /\ confirm_delete # "entries") =>
                    pressed = "clear_entries"
            /\ pressed \in {"no_entries", "no_expenses", "clear_expenses"} =>
                    confirm_delete' # "entries"
            /\ pressed \in {"no_entries", "no_expenses", "yes_expenses"} =>
                    entries_file' = entries_file
            /\ pressed \in {"yes_entries", "yes_expenses", "no_entries", "no_expenses"} =>
                    confirm_delete' = "None"]_vars

\* Clear Entries then Yes: the entries are gone, the expenses are not
C26_Witness ==
    /\ call.fn = "data_management"
    /\ call.pressed = "yes_entries"
    /\ entries_file = save_json(<<>>)
    /\ expenses_file = save_json(FewExpenses)
    /\ confirm_delete = "None"
    /\ served = 2

(***************************************************************************)
(* Deleting a client                                                       *)
(***************************************************************************)
\* the stored records of the month ym, of every client
OfMonth(items, ym) ==
    {i \in DOMAIN items : items[i].date.year = ym[1] /\ items[i].date.month = ym[2]}

\* the stored records of the tax year ty, of every client
OfTaxYear(items, ty) ==
    {i \in DOMAIN items :
        get_tax_year(items[i].date, EffectiveConfig.tax_year_start_month) = ty}

AmountsOf(items) == [i \in DOMAIN items |-> items[i].amount]

\* C30: a request that deletes a client removes the client records with that
\* id and nothing else: the stored sessions and expenses stay as they were;
\* and the unfiltered monthly and tax-year reports count every stored session
\* and expense, those of clients that no longer exist included.
C30_DeleteClientKeepsRecords ==
    /\ [][ Len(StoredClients') < Len(StoredClients) =>
              /\ UNCHANGED <<entries_file, expenses_file, config_file>>
              /\ \E i \in DOMAIN StoredClients :
                    StoredClients' =
                        SelectSeq(StoredClients, LAMBDA c : c.id # StoredClients[i].id) ]_vars
    /\ [](\A ym \in ReportMonths :
            LET r == monthly_report("", ym[1], ym[2])
            IN  /\ r.sessions = Cardinality(OfMonth(StoredEntries, ym))
                /\ r.total_labour = SumOver(OfMonth(StoredEntries, ym), AmountsOf(StoredEntries))
                /\ r.total_expenses =
                        SumOver(OfMonth(StoredExpenses, ym), AmountsOf(StoredExpenses)))
    /\ [](\A ty \in {2023, 2024} :
            LET r == taxyear_report("", [tax_year |-> ty])
            IN  r.status = 200 =>
                /\ r.sessions = Cardinality(OfTaxYear(StoredEntries, ty))
                /\ r.total_labour =
                        SumOver(OfTaxYear(StoredEntries, ty), AmountsOf(StoredEntries))
                /\ r.total_expenses =
                        SumOver(OfTaxYear(StoredExpenses, ty), AmountsOf(StoredExpenses)))

\* the default client was deleted; its session and its expense are stored
\* and in the unfiltered report of April 2024
C30_Witness ==
    /\ response = 200
    /\ clients_file.exists
    /\ \A i \in DOMAIN StoredClients : StoredClients[i].id # "client_1"
    /\ Len(StoredEntries) = 1
    /\ StoredEntries[1].client_id = "client_1"
    /\ StoredEntries[1].date = Date(2024, 4, 1)
    /\ Len(StoredExpenses) = 1
    /\ StoredExpenses[1].client_id = "client_1"
    /\ monthly_report("", 2024, 4).sessions = 1
    /\ monthly_report("", 2024, 4).total_amount =
            StoredEntries[1].amount + StoredExpenses[1].amount

(***************************************************************************)
(* webapp.py: deleting one record and clearing a store                     *)
(***************************************************************************)
\* a request of the deleting routes: call names the route, its arguments and
\* which request of the run it is
Handle(c, status) ==
    /\ served < MaxRequests
    /\ served' = served + 1
    /\ response' = status
    /\ call' = [c EXCEPT !.request = served + 1]
    /\ UNCHANGED <<ret, conc_vars, ui_vars>>

delete_entry(entry_id) ==
    LET entries == load_json(entries_file, <<>>)
    IN  /\ entries_file' = save_json(WithoutId(entries, entry_id))
        /\ Handle([fn |-> "delete_entry", request |-> 0, id |-> entry_id], 200)
        /\ UNCHANGED <<expenses_file, clients_file, config_file, now>>

delete_expense(expense_id) ==
    LET expenses == load_json(expenses_file, <<>>)
    IN  /\ expenses_file' = save_json(WithoutId(expenses, expense_id))
        /\ Handle([fn |-> "delete_expense", request |-> 0, id |-> expense_id], 200)
        /\ UNCHANGED <<entries_file, clients_file, config_file, now>>

\* the test of the confirmation that takes any value of confirm
confirm_present(args) == "confirm" \in DOMAIN args

\* request.args.get("confirm") == "true"
confirm_true(args) == DictGet(args, "confirm", "None") = "true"

clear_entries(args) ==
    IF ~confirm_true(args)
    THEN /\ Handle([fn |-> "clear_entries", request |-> 0, args |-> args], 400)
         /\ UNCHANGED <<store_vars, now>>
    ELSE /\ entries_file' = save_json(<<>>)
         /\ Handle([fn |-> "clear_entries", request |-> 0, args |-> args], 200)
         /\ UNCHANGED <<expenses_file, clients_file, config_file, now>>

clear_expenses(args) ==
    IF ~confirm_true(args)
    THEN /\ Handle([fn |-> "clear_expenses", request |-> 0, args |-> args], 400)
         /\ UNCHANGED <<store_vars, now>>
    ELSE /\ expenses_file' = save_json(<<>>)
         /\ Handle([fn |-> "clear_expenses", request |-> 0, args |-> args], 200)
         /\ UNCHANGED <<entries_file, clients_file, config_file, now>>

ApiEntryRequests ==
    {[client_id |-> "client_1", date |-> Date(2024, 4, 1), start_time |-> <<9, 0>>,
      end_time |-> <<9, 20>>],
     [client_id |-> "0", date |-> Date(2024, 3, 31), start_time |-> <<23, 0>>,
      end_time |-> <<1, 0>>]}

ApiExpenseRequests ==
    {[client_id |-> "client_1", date |-> Date(2024, 4, 1), amount |-> 1234],
     [client_id |-> "0", date |-> Date(2024, 3, 31), amount |-> 20000, description |-> "Bleach"]}

\* the ids a DELETE can name: those the clock can have issued and one that
\* was never issued
DeleteIds == {IsoFormat(t) : t \in 0..MaxClock} \cup {IsoFormat(-1)}

\* query strings of the clear-all routes
ClearArgs == {EmptyDict, [confirm |-> "true"], [confirm |-> "True"], [confirm |-> "false"]}

NextApi ==
    \/ Tick
    \/ \E data \in ApiEntryRequests : create_entry(data)
    \/ \E data \in ApiExpenseRequests : create_expense(data)
    \/ \E id \in DeleteIds : delete_entry(id)
    \/ \E id \in DeleteIds : delete_expense(id)
    \/ \E args \in ClearArgs : clear_entries(args)
    \/ \E args \in ClearArgs : clear_expenses(args)

SpecApi == Init /\ [][NextApi]_vars

\* the step is a request of route fn
Requested(fn) == call'.fn = fn /\ served' = served + 1 /\ call'.request = served'

\* C27: after any sequence of creations the stored sessions have pairwise
\* distinct ids, so DELETE /api/entries/<id> removes exactly the one session
\* with that id and keeps the others in order, and an id that no session has
\* leaves the stored sessions as they were.
C27_DeleteRemovesExactlyOne ==
    [][/\ \A i, j \in DOMAIN StoredEntries' :
              StoredEntries'[i].id = StoredEntries'[j].id => i = j
       /\ Requested("delete_entry") =>
              LET old == StoredEntries
                  new == StoredEntries'
                  at == {i \in DOMAIN old : old[i].id = call'.id}
              IN  /\ UNCHANGED <<expenses_file, clients_file, config_file>>
                  /\ IF at = {} THEN new = old
                     ELSE /\ Len(new) = Len(old) - 1
                          /\ \E i \in at :
                                new = SubSeq(old, 1, i - 1) \o SubSeq(old, i + 1, Len(old))]_vars

\* C28: a clear-all request without confirm=true is answered with an error
\* and leaves both stores as they were; with confirm=true it empties the
\* store it addresses and leaves the other one as it was.
C28_ClearNeedsConfirm ==
    [][\A fn \in {"clear_entries", "clear_expenses"} :
          Requested(fn) =>
              IF "confirm" \in DOMAIN call'.args /\ call'.args.confirm = "true"
              THEN /\ response' = 200
                   /\ fn = "clear_entries" =>
                          StoredEntries' = <<>> /\ UNCHANGED <<expenses_file, clients_file, config_file>>
                   /\ fn = "clear_expenses" =>
                          StoredExpenses' = <<>> /\ UNCHANGED <<entries_file, clients_file, config_file>>
              ELSE /\ response' = 400
                   /\ UNCHANGED store_vars]_vars

\* the expenses were cleared with confirm=true while a session is stored
C28_Witness ==
    /\ call.fn = "clear_expenses"
    /\ call.request = served
    /\ call.args = [confirm |-> "true"]
    /\ response = 200
    /\ expenses_file = save_json(<<>>)
    /\ Len(StoredEntries) = 1

====
